---- MODULE Spec2Model ----
(***************************************************************************)
(* Market Monitor: the daily prediction pipeline (monitor.py), the         *)
(* per-ticker prediction log, and the dashboard's signal classifier.       *)
(*                                                                         *)
(* Floating-point values are modelled as exact rationals n/d extended with *)
(* NaN and +/-infinity (IEEE-754 semantics of the special values, as numpy *)
(* and pandas produce them); rounding error of finite arithmetic is not    *)
(* modelled.  A finite value whose magnitude no property depends on and    *)
(* that is not a rational (a standard deviation) or whose exact rational   *)
(* does not fit machine integers (an EMA over many bars) is the token      *)
(* Finite.                                                                 *)
(***************************************************************************)
EXTENDS Integers, Sequences, FiniteSets, TLC

(***************************************************************************)
(* Numbers                                                                 *)
(***************************************************************************)
Abs(i) == IF i < 0 THEN -i ELSE i

RECURSIVE Gcd(_, _)
Gcd(a, b) == IF b = 0 THEN a ELSE Gcd(b, a % b)

\* a float: k = "num" (the rational n/d, d > 0, lowest terms), "fin" (a
\* finite value not tracked), "inf" (n = 1: +inf, n = -1: -inf), "nan";
\* None is Python's None / JSON null.
NaN == [k |-> "nan", n |-> 0, d |-> 1]
PInf == [k |-> "inf", n |-> 1, d |-> 1]
NInf == [k |-> "inf", n |-> -1, d |-> 1]
Finite == [k |-> "fin", n |-> 0, d |-> 1]
None == [k |-> "none", n |-> 0, d |-> 1]

Rat(n, d) ==
    LET s == IF d < 0 THEN -1 ELSE 1
        g == Gcd(Abs(n), Abs(d))
    IN  [k |-> "num", n |-> (s * n) \div g, d |-> (s * d) \div g]

Num(i) == [k |-> "num", n |-> i, d |-> 1]

IsNum(x) == x.k = "num"
IsNaN(x) == x.k = "nan"
IsInf(x) == x.k = "inf"
\* sign of a float that is a number or an infinity: -1, 0, 1
Sign(x) == IF x.n > 0 THEN 1 ELSE IF x.n < 0 THEN -1 ELSE 0

\* IEEE comparisons: every comparison with NaN is false
FLt(a, b) ==
    /\ a.k \in {"num", "inf"}
    /\ b.k \in {"num", "inf"}
    /\ IF IsInf(a) THEN a.n = -1 /\ ~(IsInf(b) /\ b.n = -1)
       ELSE IF IsInf(b) THEN b.n = 1
       ELSE a.n * b.d < b.n * a.d
FGt(a, b) == FLt(b, a)
FLe(a, b) ==
    /\ a.k \in {"num", "inf"}
    /\ b.k \in {"num", "inf"}
    /\ ~FLt(b, a)

FNeg(a) ==
    IF a.k \in {"num", "inf"} THEN [a EXCEPT !.n = -a.n] ELSE a

FAdd(a, b) ==
    IF IsNaN(a) \/ IsNaN(b) THEN NaN
    ELSE IF IsInf(a) /\ IsInf(b) THEN (IF a.n = b.n THEN a ELSE NaN)
    ELSE IF IsInf(a) THEN a
    ELSE IF IsInf(b) THEN b
    ELSE IF a.k = "fin" \/ b.k = "fin" THEN Finite
    ELSE IF a.d = 1 /\ b.d = 1 THEN Num(a.n + b.n)
    ELSE Rat(a.n * b.d + b.n * a.d, a.d * b.d)

FSub(a, b) == FAdd(a, FNeg(b))

FMul(a, b) ==
    IF IsNaN(a) \/ IsNaN(b) THEN NaN
    ELSE IF a.k = "fin" \/ b.k = "fin" THEN Finite
    ELSE IF IsInf(a) \/ IsInf(b)
         THEN (IF Sign(a) * Sign(b) = 0 THEN NaN
               ELSE IF Sign(a) * Sign(b) > 0 THEN PInf ELSE NInf)
    ELSE Rat(a.n * b.n, a.d * b.d)

\* numpy float division: x/0 is +/-inf, 0/0 is NaN, x/inf is 0
FDiv(a, b) ==
    IF IsNaN(a) \/ IsNaN(b) THEN NaN
    ELSE IF a.k = "fin" \/ b.k = "fin" THEN Finite
    ELSE IF IsInf(a) THEN (IF IsInf(b) THEN NaN
                           ELSE IF a.n * (IF b.n < 0 THEN -1 ELSE 1) > 0
                                THEN PInf ELSE NInf)
    ELSE IF IsInf(b) THEN Num(0)
    ELSE IF b.n = 0 THEN (IF a.n = 0 THEN NaN
                          ELSE IF a.n > 0 THEN PInf ELSE NInf)
    ELSE Rat(a.n * b.d, a.d * b.n)

(***************************************************************************)
(* Signal classifier (dashboard)                                           *)
(***************************************************************************)
StrongBuy == "STRONG BUY"
Buy == "BUY"
StrongSell == "STRONG SELL"
Sell == "SELL"
Hold == "HOLD"

\* Python truth value of the rsi argument: None and 0.0 are false, every
\* other float (NaN too) is true
Truthy(x) == x.k # "none" /\ ~(IsNum(x) /\ x.n = 0)

\* a classifier whose rules with an RSI are tried in another order: the
\* BUY rule before the STRONG BUY rule, the SELL rule before STRONG SELL
get_signal_weak_first(price_change_pct, rsi) ==
    IF Truthy(rsi)
    THEN IF FGt(price_change_pct, Rat(1, 2)) /\ FLt(rsi, Num(65)) THEN Buy
         ELSE IF FGt(price_change_pct, Num(2)) /\ FLt(rsi, Num(70)) THEN StrongBuy
         ELSE IF FLt(price_change_pct, Rat(-1, 2)) /\ FGt(rsi, Num(35)) THEN Sell
         ELSE IF FLt(price_change_pct, Num(-2)) /\ FGt(rsi, Num(30)) THEN StrongSell
         ELSE Hold
    ELSE IF FGt(price_change_pct, Num(2)) THEN StrongBuy
         ELSE IF FGt(price_change_pct, Rat(1, 2)) THEN Buy
         ELSE IF FLt(price_change_pct, Num(-2)) THEN StrongSell
         ELSE IF FLt(price_change_pct, Rat(-1, 2)) THEN Sell
         ELSE Hold

\* the classifier with non-strict thresholds
get_signal_ge(price_change_pct, rsi) ==
    IF Truthy(rsi)
    THEN IF FLe(Num(2), price_change_pct) /\ FLt(rsi, Num(70)) THEN StrongBuy
         ELSE IF FLe(Rat(1, 2), price_change_pct) /\ FLt(rsi, Num(65)) THEN Buy
         ELSE IF FLe(price_change_pct, Num(-2)) /\ FGt(rsi, Num(30)) THEN StrongSell
         ELSE IF FLe(price_change_pct, Rat(-1, 2)) /\ FGt(rsi, Num(35)) THEN Sell
         ELSE Hold
    ELSE IF FLe(Num(2), price_change_pct) THEN StrongBuy
         ELSE IF FLe(Rat(1, 2), price_change_pct) THEN Buy
         ELSE IF FLe(price_change_pct, Num(-2)) THEN StrongSell
         ELSE IF FLe(price_change_pct, Rat(-1, 2)) THEN Sell
         ELSE Hold

get_signal(price_change_pct, rsi) ==
    IF Truthy(rsi)
    THEN IF FGt(price_change_pct, Num(2)) /\ FLt(rsi, Num(70)) THEN StrongBuy
         ELSE IF FGt(price_change_pct, Rat(1, 2)) /\ FLt(rsi, Num(65)) THEN Buy
         ELSE IF FLt(price_change_pct, Num(-2)) /\ FGt(rsi, Num(30)) THEN StrongSell
         ELSE IF FLt(price_change_pct, Rat(-1, 2)) /\ FGt(rsi, Num(35)) THEN Sell
         ELSE Hold
    ELSE IF FGt(price_change_pct, Num(2)) THEN StrongBuy
         ELSE IF FGt(price_change_pct, Rat(1, 2)) THEN Buy
         ELSE IF FLt(price_change_pct, Num(-2)) THEN StrongSell
         ELSE IF FLt(price_change_pct, Rat(-1, 2)) THEN Sell
         ELSE Hold

(***************************************************************************)
(* Bounds and program constants                                            *)
(***************************************************************************)
MaxBars == 51
MaxRuns == 2

MA5Window == 5
MA10Window == 10
MA20Window == 20
MA50Window == 50
RsiWindow == 14
BBWindow == 20
VolumeWindow == 5
VolatilityWindow == 20
Lags == {1, 2, 3, 5, 7}

Tickers == {"AAPL", "TSLA"}
\* a command-line argument that is not in AVAILABLE_TICKERS
BadTicker == "ZZZZ"

(***************************************************************************)
(* Market data: the bars the provider returns.  A history is described by  *)
(* its length, its last close, the alternating steps of its closes (+up on *)
(* odd bars, -down on even bars), the number of unchanged closes at its    *)
(* end and the number of zero-volume bars at its end.                      *)
(***************************************************************************)
BarCounts == (MA50Window - 1)..MaxBars
Steps == {0, 1, 2}
LastCloses == {100}
FlatTails == {0, RsiWindow}
ZeroVolumeTails == {0, VolumeWindow}

\* the move of the close on bar t
Delta(t, n, up, down, flat) ==
    IF t > n - flat THEN 0
    ELSE IF t % 2 = 1 THEN up ELSE -down

\* the close of bar t: the last close minus the moves of the bars after t
\* (the odd bars among t+1..n-flat move up, the even ones down)
CloseAt(t, n, last, up, down, flat) ==
    LET m     == n - flat
        evens == IF t >= m THEN 0 ELSE (m \div 2) - (t \div 2)
        odds  == IF t >= m THEN 0 ELSE (m - t) - evens
    IN  last - odds * up + evens * down

Bars(n, last, up, down, flat, zv) ==
    [t \in 1..n |->
        LET c == CloseAt(t, n, last, up, down, flat)
        IN  [Open |-> c - Delta(t, n, up, down, flat),
             High |-> c + 1,
             Low |-> c - 1,
             Close |-> c,
             Volume |-> IF t > n - zv THEN 0 ELSE 1000]]

\* the histories the provider may hold, as parameters of Bars
Histories ==
    [n : BarCounts, last : LastCloses, up : Steps, down : Steps,
     flat : FlatTails, zv : ZeroVolumeTails]

BarsOf(h) == Bars(h.n, h.last, h.up, h.down, h.flat, h.zv)

(***************************************************************************)
(* Indicator engine: engineer_features                                     *)
(***************************************************************************)
RECURSIVE SumF(_, _, _)
SumF(s, lo, hi) ==
    IF lo > hi THEN Num(0)
    ELSE IF lo = hi THEN s[lo]
    ELSE LET mid == (lo + hi) \div 2
         IN  FAdd(SumF(s, lo, mid), SumF(s, mid + 1, hi))

\* a rolling mean that asks for one observation more than the window
RollingMean_late(s, w) ==
    [t \in DOMAIN s |->
        IF t <= w \/ \E u \in (t - w + 1)..t : IsNaN(s[u]) THEN NaN
        ELSE FDiv(SumF(s, t - w + 1, t), Num(w))]

\* Series.rolling(w).mean(): undefined until w observations are in the
\* window, and whenever the window holds an undefined value
RollingMean(s, w) ==
    [t \in DOMAIN s |->
        IF t < w \/ \E u \in (t - w + 1)..t : IsNaN(s[u]) THEN NaN
        ELSE FDiv(SumF(s, t - w + 1, t), Num(w))]

\* Series.rolling(w).std() (sample, ddof = 1): the root of a rational is not
\* a rational, the value is kept as Finite; an infinite observation makes
\* the deviation from the mean undefined
RollingStd(s, w) ==
    [t \in DOMAIN s |->
        IF t < w \/ \E u \in (t - w + 1)..t : IsNaN(s[u]) THEN NaN
        ELSE IF \E u \in (t - w + 1)..t : IsInf(s[u]) THEN NaN
        ELSE Finite]

\* one step of the recurrence, y = a x + (1 - a) y_prev with
\* a = 2 / (span + 1).  pandas leaves the average as it is when the value
\* equals it ("avoid numerical errors on constant series").  The step is
\* exact on whole numbers; a result of a fraction is a finite value that is
\* not tracked, since the denominators grow as (span + 1)^t.
EwmStep(y_prev, x, span) ==
    IF y_prev = x THEN y_prev
    ELSE IF IsNum(y_prev) /\ IsNum(x) /\ y_prev.d = 1 /\ x.d = 1
    THEN FAdd(FMul(Rat(span - 1, span + 1), y_prev), FMul(Rat(2, span + 1), x))
    ELSE FAdd(Finite, FAdd(y_prev, x))

\* the averages of the bars after those of ys, one bar after the other.
\* Once the average is a finite value that is not tracked it stays one on
\* finite values: the steps of the remaining bars are taken at once.
RECURSIVE EwmFrom(_, _, _)
EwmFrom(s, span, ys) ==
    LET k == Len(ys)
    IN  IF k >= Len(s) THEN ys
        ELSE IF ys[k] = Finite /\ \A u \in (k + 1)..Len(s) : s[u].k \in {"num", "fin"}
        THEN ys \o [u \in 1..(Len(s) - k) |-> Finite]
        ELSE EwmFrom(s, span, Append(ys, EwmStep(ys[k], s[k + 1], span)))

\* an average seeded with 0 in place of the first value
Ewm_zero_seeded(s, span) ==
    IF Len(s) = 0 THEN <<>>
    ELSE EwmFrom(s, span, <<EwmStep(Num(0), s[1], span)>>)

\* Series.ewm(span, adjust=False).mean() of a series of finite values:
\* y_1 = x_1, y_t = a x_t + (1 - a) y_(t-1)
Ewm(s, span) == IF Len(s) = 0 THEN <<>> ELSE EwmFrom(s, span, <<s[1]>>)

Shift(s, i) == [t \in DOMAIN s |-> IF t <= i THEN NaN ELSE s[t - i]]

Diff(s) == [t \in DOMAIN s |-> IF t = 1 THEN NaN ELSE FSub(s[t], s[t - 1])]

\* Series.pct_change(): s_t / s_(t-1) - 1
PctChange(s) ==
    [t \in DOMAIN s |-> IF t = 1 THEN NaN
                         ELSE FSub(FDiv(s[t], s[t - 1]), Num(1))]

\* delta.where(delta > 0, 0) and -delta.where(delta < 0, 0): a comparison
\* with the undefined first difference is false, so it becomes 0
GainSeries(delta) ==
    [t \in DOMAIN delta |-> IF FGt(delta[t], Num(0)) THEN delta[t] ELSE Num(0)]
\* the losses without the change of sign
LossSeries_signed(delta) ==
    [t \in DOMAIN delta |-> IF FLt(delta[t], Num(0)) THEN delta[t] ELSE Num(0)]

\* -delta.where(delta < 0, 0): the losses as non-negative numbers
LossSeries(delta) ==
    [t \in DOMAIN delta |->
        FNeg(IF FLt(delta[t], Num(0)) THEN delta[t] ELSE Num(0))]

\* an RSI that is undefined whenever the mean of losses is zero
RsiOf_undefined_at_zero_loss(gain, loss) ==
    IF IsNum(loss) /\ loss.n = 0 THEN NaN
    ELSE FSub(Num(100), FDiv(Num(100), FAdd(Num(1), FDiv(gain, loss))))

\* 100 - 100 / (1 + gain / loss), with the float division of numpy
RsiOf(gain, loss) ==
    FSub(Num(100), FDiv(Num(100), FAdd(Num(1), FDiv(gain, loss))))

RawColumns == {"Open", "High", "Low", "Close", "Volume"}
DerivedColumns ==
    {"MA_5", "MA_10", "MA_20", "MA_50", "EMA_12", "EMA_26", "MACD",
     "MACD_Signal", "RSI", "BB_Middle", "BB_Upper", "BB_Lower",
     "Daily_Return", "Price_Range", "Price_Change", "Volume_MA_5",
     "Volume_Ratio", "Volatility",
     "Close_Lag_1", "Close_Lag_2", "Close_Lag_3", "Close_Lag_5", "Close_Lag_7",
     "Volume_Lag_1", "Volume_Lag_2", "Volume_Lag_3", "Volume_Lag_5",
     "Volume_Lag_7"}
AllColumns == RawColumns \cup DerivedColumns

Column(bars, f) == [t \in 1..Len(bars) |-> Num(bars[t][f])]

\* gain and loss: the rolling-14 means of the positive and negative moves
GainMean(bars) == RollingMean(GainSeries(Diff(Column(bars, "Close"))), RsiWindow)
LossMean(bars) == RollingMean(LossSeries(Diff(Column(bars, "Close"))), RsiWindow)

\* the row of bar t with every column computed, before rows are dropped;
\* date = the bar's position in the input
Row(bars, t) ==
    LET Close  == Column(bars, "Close")
        Open   == Column(bars, "Open")
        High   == Column(bars, "High")
        Low    == Column(bars, "Low")
        Volume == Column(bars, "Volume")
        EMA12  == Ewm(Close, 12)
        EMA26  == Ewm(Close, 26)
        MACD   == [u \in 1..Len(bars) |-> FSub(EMA12[u], EMA26[u])]
        BBMid  == RollingMean(Close, BBWindow)
        bb_std == RollingStd(Close, BBWindow)
        Ret    == PctChange(Close)
        VMA5   == RollingMean(Volume, VolumeWindow)
    IN  [date |-> t,
         cols |->
           [Open |-> Open[t], High |-> High[t], Low |-> Low[t],
            Close |-> Close[t], Volume |-> Volume[t],
            MA_5 |-> RollingMean(Close, MA5Window)[t],
            MA_10 |-> RollingMean(Close, MA10Window)[t],
            MA_20 |-> RollingMean(Close, MA20Window)[t],
            MA_50 |-> RollingMean(Close, MA50Window)[t],
            EMA_12 |-> EMA12[t], EMA_26 |-> EMA26[t],
            MACD |-> MACD[t], MACD_Signal |-> Ewm(MACD, 9)[t],
            RSI |-> RsiOf(GainMean(bars)[t], LossMean(bars)[t]),
            BB_Middle |-> BBMid[t],
            BB_Upper |-> FAdd(BBMid[t], FMul(bb_std[t], Num(2))),
            BB_Lower |-> FSub(BBMid[t], FMul(bb_std[t], Num(2))),
            Daily_Return |-> Ret[t],
            Price_Range |-> FSub(High[t], Low[t]),
            Price_Change |-> FSub(Close[t], Open[t]),
            Volume_MA_5 |-> VMA5[t],
            Volume_Ratio |-> FDiv(Volume[t], VMA5[t]),
            Volatility |-> RollingStd(Ret, VolatilityWindow)[t],
            Close_Lag_1 |-> Shift(Close, 1)[t], Close_Lag_2 |-> Shift(Close, 2)[t],
            Close_Lag_3 |-> Shift(Close, 3)[t], Close_Lag_5 |-> Shift(Close, 5)[t],
            Close_Lag_7 |-> Shift(Close, 7)[t],
            Volume_Lag_1 |-> Shift(Volume, 1)[t],
            Volume_Lag_2 |-> Shift(Volume, 2)[t],
            Volume_Lag_3 |-> Shift(Volume, 3)[t],
            Volume_Lag_5 |-> Shift(Volume, 5)[t],
            Volume_Lag_7 |-> Shift(Volume, 7)[t]]]

\* DataFrame.dropna(): a row stays iff none of its cells is NaN (infinite
\* cells are not missing values)
\* a filter that does not look at the RSI column
RowIsDense_but_rsi(r) == \A c \in DOMAIN r.cols \ {"RSI"} : ~IsNaN(r.cols[c])

\* DataFrame.dropna(): a row stays when none of its cells is undefined
RowIsDense(r) == \A c \in DOMAIN r.cols : ~IsNaN(r.cols[c])

\* a filter that lets the rows pass whose MA_50 is undefined
dropna_but_ma50(bars) ==
    LET warm == { t \in 1..Len(bars) :
                    ~IsNaN(RollingMean(Column(bars, "Close"), MA20Window)[t]) }
        kept == { r \in { Row(bars, t) : t \in warm } :
                    \A c \in DOMAIN r.cols \ {"MA_50"} : ~IsNaN(r.cols[c]) }
        nth(i) == CHOOSE r \in kept :
                    Cardinality({ q \in kept : q.date <= r.date }) = i
    IN  [i \in 1..Cardinality(kept) |-> nth(i)]

\* the rows that stay, in date order.  The cell of the longest window is
\* looked at first so that the rows of the warm-up are not computed in full.
dropna(bars) ==
    LET warm == { t \in 1..Len(bars) :
                    ~IsNaN(RollingMean(Column(bars, "Close"), MA50Window)[t]) }
        kept == { r \in { Row(bars, t) : t \in warm } : RowIsDense(r) }
        nth(i) == CHOOSE r \in kept :
                    Cardinality({ q \in kept : q.date <= r.date }) = i
    IN  [i \in 1..Cardinality(kept) |-> nth(i)]

\* a frame: its column set and its rows
Frame(columns, rows) == [some |-> TRUE, columns |-> columns, rows |-> rows]
NoFrame == [some |-> FALSE, columns |-> {}, rows |-> <<>>]

engineer_features(df) ==
    IF ~(RawColumns \subseteq df.columns) THEN NoFrame
    ELSE Frame(AllColumns, dropna(df.rows))

(***************************************************************************)
(* Input preparer: prepare_input                                           *)
(***************************************************************************)
\* the feature lists a model's metadata may declare ("Sentiment" is a
\* column engineer_features does not compute)
FeatureLists ==
    { <<"Close", "RSI", "MACD">>, <<"Close", "MA_5">>, <<"Close", "Sentiment">> }

Range(s) == { s[i] : i \in DOMAIN s }

\* df_features[feature_cols]: every row restricted to the selected columns
SelectColumns(rows, feature_cols) ==
    [i \in DOMAIN rows |->
        [rows[i] EXCEPT !.cols = [c \in Range(feature_cols) |-> rows[i].cols[c]]]]

\* frame.iloc[-1:]: the frame holding only the last row (none if empty)
LastRowFrame(rows) ==
    IF rows = <<>> THEN <<>> ELSE <<rows[Len(rows)]>>

\* frame.replace([inf, -inf], nan)
ReplaceInf(rows) ==
    [i \in DOMAIN rows |->
        [rows[i] EXCEPT !.cols =
            [c \in DOMAIN rows[i].cols |->
                IF IsInf(rows[i].cols[c]) THEN NaN ELSE rows[i].cols[c]]]]

\* frame.ffill(): an undefined cell takes the nearest defined value above it
\* in the same column of this frame
RECURSIVE FilledCell(_, _, _)
FilledCell(rows, i, c) ==
    IF ~IsNaN(rows[i].cols[c]) THEN rows[i].cols[c]
    ELSE IF i = 1 THEN NaN
    ELSE FilledCell(rows, i - 1, c)

ffill(rows) ==
    [i \in DOMAIN rows |->
        [rows[i] EXCEPT !.cols =
            [c \in DOMAIN rows[i].cols |-> FilledCell(rows, i, c)]]]

\* frame.fillna(0)
fillna0(rows) ==
    [i \in DOMAIN rows |->
        [rows[i] EXCEPT !.cols =
            [c \in DOMAIN rows[i].cols |->
                IF IsNaN(rows[i].cols[c]) THEN Num(0) ELSE rows[i].cols[c]]]]

HasNull(rows) ==
    \E i \in DOMAIN rows : \E c \in DOMAIN rows[i].cols : IsNaN(rows[i].cols[c])

\* the one-row frame handed to the scaler
LatestRows(df_features, feature_cols) ==
    LET latest   == LastRowFrame(SelectColumns(df_features.rows, feature_cols))
        replaced == ReplaceInf(latest)
    IN  IF HasNull(replaced) THEN fillna0(ffill(replaced)) ELSE replaced

\* scaler.transform(latest): a fitted scikit-learn scaler rejects a frame of
\* zero rows (ValueError); scaler_ok is whether the collaborator otherwise
\* accepts the frame.  The affine map of the scaler is not modelled, the
\* vector keeps the values in the order of feature_cols.
ScalerAccepts(latest, scaler_ok) == latest # <<>> /\ scaler_ok

\* a vector that holds the features in the reverse of the declared order
Vector_reversed(latest, feature_cols) ==
    [some |-> TRUE,
     values |-> [i \in DOMAIN feature_cols |->
                   latest[1].cols[feature_cols[Len(feature_cols) + 1 - i]]]]

\* the array handed to the predictor: one value per declared feature, in
\* the order of feature_cols
Vector(latest, feature_cols) ==
    [some |-> TRUE,
     values |-> [i \in DOMAIN feature_cols |-> latest[1].cols[feature_cols[i]]]]
NoVector == [some |-> FALSE, values |-> <<>>]

\* a preparer that hands a vector of zeros over when the table has no row
prepare_input_zero_vector(df_features, feature_cols, scaler_ok) ==
    IF ~(Range(feature_cols) \subseteq df_features.columns)
    THEN [scaled |-> NoVector, latest |-> NoFrame, scaler_called |-> FALSE]
    ELSE LET latest == LatestRows(df_features, feature_cols)
             zeros  == <<[date |-> 0, cols |-> [c \in Range(feature_cols) |-> Num(0)]]>>
             used   == IF latest = <<>> THEN zeros ELSE latest
         IN  IF ~ScalerAccepts(used, scaler_ok)
             THEN [scaled |-> NoVector, latest |-> NoFrame,
                   scaler_called |-> TRUE]
             ELSE [scaled |-> Vector(used, feature_cols),
                   latest |-> Frame(Range(feature_cols), used),
                   scaler_called |-> TRUE]

\* prepare_input: (scaled, latest), or (None, None) when anything raises.
\* Selecting a column the table does not have raises KeyError before the
\* scaler is reached; scaler_called tells whether scaler.transform ran.
prepare_input(df_features, feature_cols, scaler_ok) ==
    IF ~(Range(feature_cols) \subseteq df_features.columns)
    THEN [scaled |-> NoVector, latest |-> NoFrame, scaler_called |-> FALSE]
    ELSE LET latest == LatestRows(df_features, feature_cols)
         IN  IF ~ScalerAccepts(latest, scaler_ok)
             THEN [scaled |-> NoVector, latest |-> NoFrame,
                   scaler_called |-> TRUE]
             ELSE [scaled |-> Vector(latest, feature_cols),
                   latest |-> Frame(Range(feature_cols), latest),
                   scaler_called |-> TRUE]

(***************************************************************************)
(* Result logger: log_result                                               *)
(***************************************************************************)
\* round(x, 2) of a float: to the nearest hundredth, ties to even; NaN and
\* the infinities are returned unchanged
RoundHalfEven(n, d) ==
    LET q == n \div d
        r == n - q * d
    IN  IF 2 * r < d THEN q
        ELSE IF 2 * r > d THEN q + 1
        ELSE IF q % 2 = 0 THEN q ELSE q + 1

Round2(x) == IF IsNum(x) THEN Rat(RoundHalfEven(x.n * 100, x.d), 100) ELSE x

\* the entry with the percentage taken of the predicted price
LogEntry_pct_of_predicted(timestamp, tk, current_price, predicted_price, latest_data) ==
    LET change     == FSub(predicted_price, current_price)
        change_pct == FMul(FDiv(change, predicted_price), Num(100))
    IN  [timestamp |-> timestamp,
         ticker |-> tk,
         current_price |-> Round2(current_price),
         predicted_price |-> Round2(predicted_price),
         price_change |-> Round2(change),
         price_change_pct |-> Round2(change_pct),
         rsi |-> IF "RSI" \in latest_data.columns
                 THEN Round2(latest_data.rows[1].cols["RSI"]) ELSE None,
         macd |-> IF "MACD" \in latest_data.columns
                  THEN Round2(latest_data.rows[1].cols["MACD"]) ELSE None]

\* the entry log_result builds (monitor/monitor.py rounds to 2 decimals)
LogEntry(timestamp, tk, current_price, predicted_price, latest_data) ==
    LET change     == FSub(predicted_price, current_price)
        change_pct == FMul(FDiv(change, current_price), Num(100))
    IN  [timestamp |-> timestamp,
         ticker |-> tk,
         current_price |-> Round2(current_price),
         predicted_price |-> Round2(predicted_price),
         price_change |-> Round2(change),
         price_change_pct |-> Round2(change_pct),
         rsi |-> IF "RSI" \in latest_data.columns
                 THEN Round2(latest_data.rows[1].cols["RSI"]) ELSE None,
         macd |-> IF "MACD" \in latest_data.columns
                  THEN Round2(latest_data.rows[1].cols["MACD"]) ELSE None]

\* the entry scripts/monitor.py builds: the floats as they are
OldLogEntry(timestamp, tk, current_price, predicted_price, latest_data) ==
    LET price_change     == FSub(predicted_price, current_price)
        price_change_pct == FMul(FDiv(price_change, current_price), Num(100))
    IN  [timestamp |-> timestamp,
         ticker |-> tk,
         current_price |-> current_price,
         predicted_price |-> predicted_price,
         price_change |-> price_change,
         price_change_pct |-> price_change_pct,
         rsi |-> IF "RSI" \in latest_data.columns
                 THEN latest_data.rows[1].cols["RSI"] ELSE None,
         macd |-> IF "MACD" \in latest_data.columns
                  THEN latest_data.rows[1].cols["MACD"] ELSE None]

NoEntry == [timestamp |-> 0, ticker |-> "", current_price |-> None,
            predicted_price |-> None, price_change |-> None,
            price_change_pct |-> None, rsi |-> None, macd |-> None]

\* a log file: whether it exists, and its lines
NoFile == [exists |-> FALSE, lines |-> <<>>]

\* open(path, "a"); write(line): creates the file when missing
AppendLine(file, line) == [exists |-> TRUE, lines |-> Append(file.lines, line)]

\* the prices the predictor may return
PredictedPrices == {97, 102}

(***************************************************************************)
(* Dashboard: load_logs                                                    *)
(***************************************************************************)
\* pd.DataFrame(rows): a column holding both numbers and None becomes a
\* float column in which None reads as NaN; a column of None only keeps None
ColumnHasNumber(lines, f) == \E i \in DOMAIN lines : lines[i][f].k # "none"

ToFrameRows(lines) ==
    [i \in DOMAIN lines |->
        [f \in DOMAIN lines[i] |->
            IF f \in {"timestamp", "ticker"} THEN lines[i][f]
            ELSE IF lines[i][f].k = "none" /\ ColumnHasNumber(lines, f) THEN NaN
            ELSE lines[i][f]]]

\* df.sort_values("timestamp")
RECURSIVE InsertByTimestamp(_, _)
InsertByTimestamp(sorted, r) ==
    IF sorted = <<>> THEN <<r>>
    ELSE IF sorted[Len(sorted)].timestamp <= r.timestamp THEN Append(sorted, r)
    ELSE Append(InsertByTimestamp(SubSeq(sorted, 1, Len(sorted) - 1), r),
                sorted[Len(sorted)])

RECURSIVE SortByTimestamp(_)
SortByTimestamp(rows) ==
    IF rows = <<>> THEN <<>>
    ELSE InsertByTimestamp(SortByTimestamp(SubSeq(rows, 1, Len(rows) - 1)),
                           rows[Len(rows)])

load_logs(file) ==
    IF ~file.exists \/ file.lines = <<>> THEN <<>>
    ELSE SortByTimestamp(ToFrameRows(file.lines))

(***************************************************************************)
(* Subscriber store: data/subscribers.json.  The file is missing, or its   *)
(* "emails" value is a flat list (legacy), or a dict from ticker to list.  *)
(***************************************************************************)
Emails == {"a@x.com", "b@x.com"}

EmptyDict == [t \in {} |-> <<>>]
NoStore == [kind |-> "none", list |-> <<>>, dict |-> EmptyDict]
ListStore(l) == [kind |-> "list", list |-> l, dict |-> EmptyDict]
DictStore(d) == [kind |-> "dict", list |-> <<>>, dict |-> d]

\* d.get(k, [])
Get(d, k) == IF k \in DOMAIN d THEN d[k] ELSE <<>>
\* d[k] = v
Put(d, k, v) == [t \in DOMAIN d \cup {k} |-> IF t = k THEN v ELSE d[t]]
\* e in l
Has(l, e) == \E i \in DOMAIN l : l[i] = e
\* l.remove(e): the first occurrence goes
Remove(l, e) ==
    LET i == CHOOSE j \in DOMAIN l : l[j] = e /\ \A k \in 1..(j - 1) : l[k] # e
    IN  SubSeq(l, 1, i - 1) \o SubSeq(l, i + 1, Len(l))
\* the keys of a dict, as iterating over it gives them
KeysOf(d) ==
    CHOOSE s \in [1..Cardinality(DOMAIN d) -> DOMAIN d] :
        { s[i] : i \in DOMAIN s } = DOMAIN d

\* a monitor that reads a flat list as the subscribers of AAPL only
load_subscribers_aapl_only(subscribers_file, tk) ==
    CASE subscribers_file.kind = "none" -> <<>>
      [] subscribers_file.kind = "dict" -> Get(subscribers_file.dict, tk)
      [] OTHER -> IF tk = "AAPL" THEN subscribers_file.list ELSE <<>>

\* monitor/monitor.py load_subscribers: the emails subscribed to the ticker;
\* a flat list is read as subscribed to every ticker
load_subscribers(subscribers_file, tk) ==
    CASE subscribers_file.kind = "none" -> <<>>
      [] subscribers_file.kind = "dict" -> Get(subscribers_file.dict, tk)
      [] OTHER -> subscribers_file.list

\* scripts/monitor.py load_subscribers: the "emails" value as it is; the
\* loop over a dict visits its keys
old_load_subscribers(subscribers_file) ==
    CASE subscribers_file.kind = "none" -> <<>>
      [] subscribers_file.kind = "dict" -> KeysOf(subscribers_file.dict)
      [] OTHER -> subscribers_file.list

\* what a dashboard operation returns and whether it saved the file
Result(ok, msg, write, data) ==
    [ok |-> ok, msg |-> msg, write |-> write, data |-> data]

AlreadySubscribed == "already subscribed"
Subscribed == "subscribed"
Unsubscribed == "unsubscribed"
NotFound == "not found"
Updated == "updated"
Raised == "raised"

\* --- streamlit app/app.py: per-ticker functions ---
sa_load_subscribers_raw(subscribers_file) ==
    IF subscribers_file.kind = "none" THEN DictStore(EmptyDict)
    ELSE subscribers_file

sa_get_subscribers(subscribers_file, tk) ==
    LET raw == sa_load_subscribers_raw(subscribers_file)
    IN  IF raw.kind = "list" THEN raw.list ELSE Get(raw.dict, tk)

\* "migrate legacy flat list -> dict": the list becomes the list of AAPL
sa_migrate(raw) ==
    IF raw.kind = "list" THEN DictStore([t \in {"AAPL"} |-> raw.list]) ELSE raw

\* an add that appends without looking for the email
sa_add_subscriber_appending(raw, tk, email) ==
    LET emails == sa_migrate(raw).dict
    IN  Result(TRUE, Subscribed, TRUE,
               DictStore(Put(emails, tk, Append(Get(emails, tk), email))))

\* add_subscriber(ticker, email) on the file content it loaded
sa_add_subscriber(raw, tk, email) ==
    LET emails == sa_migrate(raw).dict
    IN  IF Has(Get(emails, tk), email)
        THEN Result(FALSE, AlreadySubscribed, FALSE, raw)
        ELSE Result(TRUE, Subscribed, TRUE,
                    DictStore(Put(emails, tk, Append(Get(emails, tk), email))))

sa_remove_subscriber(raw, tk, email) ==
    LET emails == sa_migrate(raw).dict
    IN  IF Has(Get(emails, tk), email)
        THEN Result(TRUE, Unsubscribed, TRUE,
                    DictStore(Put(emails, tk, Remove(emails[tk], email))))
        ELSE Result(FALSE, NotFound, FALSE, raw)

\* --- streamlit_app/app.py: class StreamlitApp, one flat list ---
app_load_subscribers(subscribers_file) ==
    IF subscribers_file.kind = "none" THEN ListStore(<<>>) ELSE subscribers_file

\* on a dict the membership test looks at the keys and append raises
app_add_subscriber(subscribers, email) ==
    IF subscribers.kind = "dict" THEN Result(FALSE, Raised, FALSE, subscribers)
    ELSE IF Has(subscribers.list, email)
    THEN Result(FALSE, AlreadySubscribed, FALSE, subscribers)
    ELSE Result(TRUE, Subscribed, TRUE,
                ListStore(Append(subscribers.list, email)))

app_remove_subscriber(subscribers, email) ==
    IF subscribers.kind = "list" /\ Has(subscribers.list, email)
    THEN Result(TRUE, Unsubscribed, TRUE,
                ListStore(Remove(subscribers.list, email)))
    ELSE Result(FALSE, NotFound, FALSE, subscribers)

\* --- Streamlit_app/app.py: the subscription page ---
\* load_subscribers: a dict is returned as it is; a flat list ("Convert old
\* format") or a missing file gives an empty list for every ticker
page_load_subscribers(subscribers_file) ==
    IF subscribers_file.kind = "dict" THEN subscribers_file
    ELSE DictStore([t \in Tickers |-> <<>>])

\* a "Subscribe / Update" that appends to the list of every selected ticker
\* without looking for the email
page_subscribe_appending(sub_data, email, selected_for_sub) ==
    Result(TRUE, Updated, TRUE,
           DictStore([t \in DOMAIN sub_data.dict \cup Tickers |->
               LET cur == Get(sub_data.dict, t)
               IN  IF t \notin Tickers THEN cur
                   ELSE IF t \in selected_for_sub THEN Append(cur, email)
                   ELSE IF Has(cur, email) THEN Remove(cur, email) ELSE cur]))

\* "Subscribe / Update": the email is in the list of every selected ticker
\* and of no other; the file is saved and success is reported
page_subscribe(sub_data, email, selected_for_sub) ==
    Result(TRUE, Updated, TRUE,
           DictStore([t \in DOMAIN sub_data.dict \cup Tickers |->
               LET cur == Get(sub_data.dict, t)
               IN  IF t \notin Tickers THEN cur
                   ELSE IF t \in selected_for_sub
                   THEN IF Has(cur, email) THEN cur ELSE Append(cur, email)
                   ELSE IF Has(cur, email) THEN Remove(cur, email) ELSE cur]))

\* "Unsubscribe from All"
page_unsubscribe_all(sub_data, email) ==
    Result(TRUE, Unsubscribed, TRUE,
           DictStore([t \in DOMAIN sub_data.dict |->
               IF Has(sub_data.dict[t], email)
               THEN Remove(sub_data.dict[t], email) ELSE sub_data.dict[t]]))

\* --- the operations a dashboard session may perform ---
Op(app, name, tk, sel, email) ==
    [app |-> app, name |-> name, tk |-> tk, sel |-> sel, email |-> email]
NoOp == Op("", "", "", {}, "")

\* what a visitor types in the email field of a form
Typed == Emails \cup {"A@x.com"}

\* str.lower()
Lower(e) == IF e = "A@x.com" THEN "a@x.com" ELSE e

\* the forms: render_subscribe of "streamlit app" passes
\* email.strip().lower(), render_subscriptions of Streamlit_app uses
\* email.lower(), the form of StreamlitApp passes the text as typed
Ops ==
    { Op("streamlit app", name, tk, {}, Lower(e)) :
        name \in {"add", "remove"}, tk \in Tickers, e \in Typed }
    \cup { Op("streamlit_app", name, "", {}, e) :
        name \in {"add", "remove"}, e \in Typed }
    \cup { Op("Streamlit_app", "subscribe", "", sel, Lower(e)) :
        sel \in SUBSET Tickers, e \in Typed }
    \cup { Op("Streamlit_app", "unsubscribe_all", "", {}, Lower(e)) : e \in Typed }

\* the load at the start of the operation
Load(op, subscribers_file) ==
    CASE op.app = "streamlit app" -> sa_load_subscribers_raw(subscribers_file)
      [] op.app = "streamlit_app" -> app_load_subscribers(subscribers_file)
      [] OTHER -> page_load_subscribers(subscribers_file)

\* the rest of the operation, on what it loaded
Apply(op, raw) ==
    CASE op.app = "streamlit app" /\ op.name = "add" ->
            sa_add_subscriber(raw, op.tk, op.email)
      [] op.app = "streamlit app" /\ op.name = "remove" ->
            sa_remove_subscriber(raw, op.tk, op.email)
      [] op.app = "streamlit_app" /\ op.name = "add" ->
            app_add_subscriber(raw, op.email)
      [] op.app = "streamlit_app" /\ op.name = "remove" ->
            app_remove_subscriber(raw, op.email)
      [] op.app = "Streamlit_app" /\ op.name = "subscribe" ->
            page_subscribe(raw, op.email, op.sel)
      [] OTHER -> page_unsubscribe_all(raw, op.email)

\* the content of the file after the operation ran on it without interruption
After(op, subscribers_file) ==
    LET r == Apply(op, Load(op, subscribers_file))
    IN  IF r.write THEN r.data ELSE subscribers_file

\* the lists of a legacy store
SubscriberLists == { <<>>, <<"a@x.com">>, <<"a@x.com", "b@x.com">> }

\* the stores the file may hold before the dashboards run
InitStores ==
    { NoStore }
    \cup { ListStore(l) : l \in SubscriberLists }
    \cup { DictStore([t \in {"AAPL"} |-> <<"a@x.com">>]),
           DictStore([t \in Tickers |->
                        IF t = "AAPL" THEN <<"a@x.com", "b@x.com">> ELSE <<>>]) }

\* the sessions of the dashboards
Procs == {"p1", "p2"}
DashIdle == [pc |-> "idle", op |-> NoOp, raw |-> NoStore, ok |-> FALSE, msg |-> ""]

(***************************************************************************)
(* State                                                                   *)
(***************************************************************************)
VARIABLES
    market,          \* the bars the data provider holds
    meta_features,   \* "features" of the model metadata files
    models,          \* tickers whose model, scaler and metadata files exist
    logs,            \* per ticker: the prediction log file
    runs,            \* pipeline runs started so far
    pc,              \* position of the running pipeline, "idle" between runs
    exit,            \* exit status of the last run: "none", 0 or 1
    steps,           \* the steps the current run has attempted, in order
    ticker,          \* self.ticker
    metadata,        \* self.metadata["features"], <<>> until loaded
    df,              \* run_pipeline: df
    df_features,     \* run_pipeline: df_features
    input_data,      \* run_pipeline: input_data
    latest_data,     \* run_pipeline: latest_data
    predicted_price, \* run_pipeline: predicted_price
    current_price,   \* run_pipeline: current_price
    log_entry,       \* run_pipeline: log_entry
    sent,            \* recipients of the messages sent by the current run
    store,           \* data/subscribers.json
    store0,          \* the store before any dashboard operation
    dash,            \* per dashboard session: its operation and what it loaded
    legacy_log,      \* logs/predictions.log, the log of scripts/monitor.py
    sender,          \* SENDER_EMAIL and SENDER_PASSWORD are both set
    sig_pct,         \* get_signal: price_change_pct
    sig_rsi,         \* get_signal: rsi
    signal           \* get_signal: the label returned, "" before any call

vars == <<market, meta_features, models, logs, runs, pc, exit, steps, ticker,
          metadata, df, df_features, input_data, latest_data, predicted_price,
          current_price, log_entry, sent, store, store0, dash, legacy_log,
          sender, sig_pct, sig_rsi, signal>>

files == <<store, store0, dash, legacy_log, sender>>
env == <<market, meta_features, files>>
run_vars == <<ticker, metadata, df, df_features, input_data, latest_data,
              predicted_price, current_price, log_entry, sent>>
sig_vars == <<sig_pct, sig_rsi, signal>>

RunIdle ==
    /\ pc = "idle"
    /\ exit = "none"
    /\ steps = <<>>
    /\ ticker = ""
    /\ metadata = <<>>
    /\ df = NoFrame
    /\ df_features = NoFrame
    /\ input_data = NoVector
    /\ latest_data = NoFrame
    /\ predicted_price = None
    /\ current_price = None
    /\ log_entry = NoEntry
    /\ sent = <<>>

\* no dashboard session has begun an operation
DashboardIdle ==
    /\ store0 = store
    /\ dash = [p \in Procs |-> DashIdle]

\* the store of the pipeline runs: two subscribers of AAPL, none of TSLA
PipelineStore ==
    DictStore([t \in Tickers |->
                 IF t = "AAPL" THEN <<"a@x.com", "b@x.com">> ELSE <<>>])

Init ==
    /\ market \in Histories
    /\ meta_features \in FeatureLists
    /\ models = {"AAPL"}
    /\ logs = [t \in Tickers |-> NoFile]
    /\ legacy_log = NoFile
    /\ store = PipelineStore
    /\ DashboardIdle
    /\ sender = TRUE
    /\ runs = 0
    /\ RunIdle
    /\ sig_pct = None
    /\ sig_rsi = None
    /\ signal = ""

(***************************************************************************)
(* The pipeline: MarketMonitor.__init__ and run_pipeline, one action per   *)
(* step.  sys.exit(1) and the return of run_pipeline end the process: its  *)
(* objects are gone, the files, the exit status and the messages sent stay.*)
(***************************************************************************)
ProcessEnds ==
    /\ pc' = "idle"
    /\ metadata' = <<>>
    /\ df' = NoFrame
    /\ df_features' = NoFrame
    /\ input_data' = NoVector
    /\ latest_data' = NoFrame
    /\ predicted_price' = None
    /\ current_price' = None
    /\ log_entry' = NoEntry

\* a failed step that returns from run_pipeline as a completed run does
Exit1_returning ==
    /\ ProcessEnds
    /\ exit' = 0

\* sys.exit(1)
Exit1 ==
    /\ ProcessEnds
    /\ exit' = 1

\* MarketMonitor(ticker): an unknown ticker exits with status 1
StartRun(tk) ==
    /\ pc = "idle"
    /\ runs < MaxRuns
    /\ runs' = runs + 1
    /\ steps' = <<>>
    /\ sent' = <<>>
    /\ IF tk \in Tickers
       THEN /\ ticker' = tk
            /\ pc' = "load_model"
            /\ exit' = "none"
            /\ UNCHANGED <<metadata, df, df_features, input_data, latest_data,
                           predicted_price, current_price, log_entry>>
       ELSE /\ ticker' = ""
            /\ Exit1
    /\ UNCHANGED <<env, models, logs, sig_vars>>

\* scripts/monitor.py: MarketMonitor() takes no ticker, reads the model files
\* without a ticker in their names and writes logs/predictions.log
OldScriptName == "scripts/monitor.py"
OldModel == "model.pkl"
OldScript == steps # <<>> /\ steps[1] = OldScriptName
ModelFiles == IF OldScript THEN OldModel ELSE ticker

StartOldRun ==
    /\ pc = "idle"
    /\ runs < MaxRuns
    /\ runs' = runs + 1
    /\ steps' = <<OldScriptName>>
    /\ sent' = <<>>
    /\ ticker' = "AAPL"
    /\ pc' = "load_model"
    /\ exit' = "none"
    /\ UNCHANGED <<metadata, df, df_features, input_data, latest_data,
                   predicted_price, current_price, log_entry>>
    /\ UNCHANGED <<env, models, logs, sig_vars>>

\* load_model: False when a file is missing
LoadModel ==
    /\ pc = "load_model"
    /\ steps' = Append(steps, "load_model")
    /\ IF ModelFiles \in models
       THEN /\ metadata' = meta_features
            /\ pc' = "fetch"
            /\ UNCHANGED <<exit, df, df_features, input_data, latest_data,
                           predicted_price, current_price, log_entry>>
       ELSE Exit1
    /\ UNCHANGED <<env, models, logs, runs, ticker, sent, sig_vars>>

\* fetch_latest_data: the provider's bars; None when the download is empty
\* or raises; "malformed" is a frame without a Close column
FetchOutcomes == {"ok", "empty", "error", "malformed"}

fetch_latest_data(outcome) ==
    CASE outcome = "ok" -> Frame(RawColumns, BarsOf(market))
      [] outcome = "malformed" -> Frame(RawColumns \ {"Close"}, BarsOf(market))
      [] OTHER -> NoFrame

Fetch(outcome) ==
    /\ pc = "fetch"
    /\ steps' = Append(steps, "fetch")
    /\ LET r == fetch_latest_data(outcome)
       IN  IF r.some
           THEN /\ df' = r
                /\ pc' = "engineer"
                /\ UNCHANGED <<exit, metadata, df_features, input_data,
                               latest_data, predicted_price, current_price,
                               log_entry>>
           ELSE Exit1
    /\ UNCHANGED <<env, models, logs, runs, ticker, sent, sig_vars>>

Engineer ==
    /\ pc = "engineer"
    /\ steps' = Append(steps, "engineer")
    /\ LET r == engineer_features(df)
       IN  IF r.some
           THEN /\ df_features' = r
                /\ pc' = "prepare"
                /\ UNCHANGED <<exit, metadata, df, input_data, latest_data,
                               predicted_price, current_price, log_entry>>
           ELSE Exit1
    /\ UNCHANGED <<env, models, logs, runs, ticker, sent, sig_vars>>

\* the steps of the run record the call of the scaler after "prepare"
Prepare(scaler_ok) ==
    /\ pc = "prepare"
    /\ LET r == prepare_input(df_features, metadata, scaler_ok)
       IN  /\ steps' = steps \o <<"prepare">>
                             \o (IF r.scaler_called THEN <<"scaler">> ELSE <<>>)
           /\ IF r.scaled.some
              THEN /\ input_data' = r.scaled
                   /\ latest_data' = r.latest
                   /\ pc' = "predict"
                   /\ UNCHANGED <<exit, metadata, df, df_features,
                                  predicted_price, current_price, log_entry>>
              ELSE Exit1
    /\ UNCHANGED <<env, models, logs, runs, ticker, sent, sig_vars>>

\* a pipeline that calls make_prediction a second time when it failed
Predict_retrying(result) ==
    /\ pc = "predict"
    /\ steps' = Append(steps, "predict")
    /\ IF result # None
       THEN /\ predicted_price' = result
            /\ pc' = "log"
            /\ UNCHANGED <<exit, metadata, df, df_features, input_data,
                           latest_data, current_price, log_entry>>
       ELSE IF "predict" \notin Range(steps)
       THEN UNCHANGED <<pc, exit, metadata, df, df_features, input_data,
                        latest_data, predicted_price, current_price, log_entry>>
       ELSE Exit1
    /\ UNCHANGED <<env, models, logs, runs, ticker, sent, sig_vars>>

\* make_prediction: model.predict(input_data)[0], None when it raises
Predict(result) ==
    /\ pc = "predict"
    /\ steps' = Append(steps, "predict")
    /\ IF result # None
       THEN /\ predicted_price' = result
            /\ pc' = "log"
            /\ UNCHANGED <<exit, metadata, df, df_features, input_data,
                           latest_data, current_price, log_entry>>
       ELSE Exit1
    /\ UNCHANGED <<env, models, logs, runs, ticker, sent, sig_vars>>

\* log_result(current_price, predicted_price, latest_data): the entry, or
\* None when writing it raises
log_result(timestamp, tk, current, predicted, latest, write_ok) ==
    IF write_ok THEN LogEntry(timestamp, tk, current, predicted, latest)
    ELSE NoEntry

\* current_price = float(df["Close"].iloc[-1]); log_result appends the entry
Log(write_ok) ==
    /\ pc = "log"
    /\ ~OldScript
    /\ steps' = Append(steps, "log")
    /\ LET current == Num(df.rows[Len(df.rows)].Close)
           entry == log_result(runs, ticker, current, predicted_price,
                               latest_data, write_ok)
       IN  IF entry # NoEntry
           THEN /\ current_price' = current
                /\ logs' = [logs EXCEPT ![ticker] = AppendLine(@, entry)]
                /\ log_entry' = entry
                /\ pc' = "email"
                /\ UNCHANGED <<exit, metadata, df, df_features, input_data,
                               latest_data, predicted_price>>
           ELSE /\ Exit1
                /\ UNCHANGED logs
    /\ UNCHANGED <<env, models, runs, ticker, sent, sig_vars>>

\* scripts/monitor.py log_result: the entry is not rounded and goes to
\* logs/predictions.log
old_log_result(timestamp, tk, current, predicted, latest, write_ok) ==
    IF write_ok THEN OldLogEntry(timestamp, tk, current, predicted, latest)
    ELSE NoEntry

\* scripts/monitor.py: current_price = df["Close"].iloc[-1]; log_result
LogOld(write_ok) ==
    /\ pc = "log"
    /\ OldScript
    /\ steps' = Append(steps, "log")
    /\ LET current == Num(df.rows[Len(df.rows)].Close)
           entry == old_log_result(runs, ticker, current, predicted_price,
                                   latest_data, write_ok)
       IN  IF entry # NoEntry
           THEN /\ current_price' = current
                /\ legacy_log' = AppendLine(legacy_log, entry)
                /\ log_entry' = entry
                /\ pc' = "email"
                /\ UNCHANGED <<exit, metadata, df, df_features, input_data,
                               latest_data, predicted_price>>
           ELSE /\ Exit1
                /\ UNCHANGED legacy_log
    /\ UNCHANGED <<market, meta_features, store, store0, dash, sender, models,
                   logs, runs, ticker, sent, sig_vars>>

\* an alert that does not look at the credentials before it connects
send_email_alert_unguarded(subscribers, creds, fail_at) ==
    IF subscribers = <<>> THEN [sent |-> <<>>, connections |-> 0]
    ELSE IF fail_at = 0
    THEN [sent |-> subscribers, connections |-> Len(subscribers)]
    ELSE IF fail_at < 0 THEN [sent |-> <<>>, connections |-> 0]
    ELSE [sent |-> SubSeq(subscribers, 1, fail_at - 1), connections |-> fail_at]

\* send_email_alert: nothing is sent and no connection is opened without
\* subscribers or credentials.  fail_at is where the sending raises: 0
\* nowhere, a negative number before the first connection (the SMTP port,
\* the formatting of the body), k > 0 in the k-th connection (connect,
\* starttls, login or send).  One connection is opened per subscriber; the
\* exception ends the loop and is caught.
send_email_alert(subscribers, creds, fail_at) ==
    IF subscribers = <<>> \/ ~creds THEN [sent |-> <<>>, connections |-> 0]
    ELSE IF fail_at = 0
    THEN [sent |-> subscribers, connections |-> Len(subscribers)]
    ELSE IF fail_at < 0 THEN [sent |-> <<>>, connections |-> 0]
    ELSE [sent |-> SubSeq(subscribers, 1, fail_at - 1), connections |-> fail_at]

\* the steps of the run record every SMTP connection after "email"
Connections(n) == [i \in 1..n |-> "smtp"]

\* the body of the message.  monitor/monitor.py formats rsi and macd with
\* ":.2f" when they are numbers and with str() otherwise; scripts/monitor.py
\* formats them with ":.2f" whatever they are, which raises on None
format_body(entry) == TRUE
old_format_body(entry) == entry.rsi # None /\ entry.macd # None

\* the subscribers the running script resolves
Subscribers ==
    IF OldScript THEN old_load_subscribers(store)
    ELSE load_subscribers(store, ticker)

\* the body of the running script is formatted without an exception
BodyFormats ==
    IF OldScript THEN old_format_body(log_entry) ELSE format_body(log_entry)

\* where the alert of the run raises: the failure of the environment at
\* fail_at, or the formatting of the body, which precedes every connection
RaisesAt(fail_at) == IF fail_at >= 0 /\ ~BodyFormats THEN -1 ELSE fail_at

\* the steps of the run record the exception the alert caught: one of the
\* environment (SMTP_PORT, connect, starttls, login, send) or one of the
\* formatting
Caught(fail_at) ==
    IF Subscribers = <<>> THEN <<>>
    ELSE IF fail_at < 0 THEN <<"smtp_error">>
    ELSE IF ~sender THEN <<>>
    ELSE IF ~BodyFormats THEN <<"format_error">>
    ELSE IF fail_at > 0 THEN <<"smtp_error">>
    ELSE <<>>

\* a pipeline in which an exception of the sending ends the run
Email_propagating(fail_at) ==
    /\ pc = "email"
    /\ fail_at <= Len(Subscribers)
    /\ LET r == send_email_alert(Subscribers, sender, RaisesAt(fail_at))
       IN  /\ steps' = Append(steps, "email") \o Connections(r.connections)
                                              \o Caught(fail_at)
           /\ sent' = r.sent
           /\ exit' = IF fail_at # 0 /\ Subscribers # <<>> /\ sender
                      THEN 1 ELSE 0
    /\ ProcessEnds
    /\ UNCHANGED <<env, models, logs, runs, ticker, sig_vars>>

\* run_pipeline: send_email_alert(log_entry), the summary, and the return
Email(fail_at) ==
    /\ pc = "email"
    /\ fail_at <= Len(Subscribers)
    /\ LET r == send_email_alert(Subscribers, sender, RaisesAt(fail_at))
       IN  /\ steps' = Append(steps, "email") \o Connections(r.connections)
                                              \o Caught(fail_at)
           /\ sent' = r.sent
    /\ exit' = 0
    /\ ProcessEnds
    /\ UNCHANGED <<env, models, logs, runs, ticker, sig_vars>>

(***************************************************************************)
(* migrate_to_multiticker.py                                               *)
(***************************************************************************)
\* returns early without a ticker, without old model files or without
\* confirmation; otherwise copies the old files to the ticker's names and
\* creates the ticker's log file when it does not exist
\* a migration that opens the log for writing whether or not it exists
migrate_log_truncating(file) == [exists |-> TRUE, lines |-> <<>>]

\* the log of the migrated ticker: created empty only when it is missing
migrate_log(file) == IF ~file.exists THEN [exists |-> TRUE, lines |-> <<>>] ELSE file

\* old_features is the feature list of the old metadata file, which is
\* copied over the ticker's (one feature list stands for the metadata of
\* all model files)
Migrate(tk, files_found, confirm, old_features) ==
    /\ pc = "idle"
    /\ tk # ""
    /\ files_found
    /\ confirm
    /\ models' = models \cup {tk}
    /\ meta_features' = old_features
    /\ logs' = [logs EXCEPT ![tk] = migrate_log(@)]
    /\ UNCHANGED <<market, files, runs, pc, exit, steps, run_vars, sig_vars>>

\* where the sending may raise: see send_email_alert
FailPoints == {-1, 0} \cup { i \in 1..Cardinality(Emails) : TRUE }

Next ==
    \/ \E tk \in Tickers \cup {BadTicker} : StartRun(tk)
    \/ LoadModel
    \/ \E outcome \in FetchOutcomes : Fetch(outcome)
    \/ Engineer
    \/ \E scaler_ok \in BOOLEAN : Prepare(scaler_ok)
    \/ \E result \in {Num(p) : p \in PredictedPrices} \cup {None} : Predict(result)
    \/ \E write_ok \in BOOLEAN : Log(write_ok)
    \/ \E fail_at \in FailPoints : Email(fail_at)
    \/ \E tk \in Tickers : \E files_found \in BOOLEAN, confirm \in BOOLEAN :
          Migrate(tk, files_found, confirm, meta_features)

Spec == Init /\ [][Next]_vars

(***************************************************************************)
(* The logger and the classifier as functions of their inputs: log_result  *)
(* on a current price, a predicted price and a latest row, then the        *)
(* dashboard's render_ticker_prediction on the record written.             *)
(***************************************************************************)
\* price_change_pct ranges over -MaxPctH..MaxPctH hundredths of a percent
MaxPctH == 250
MaxRsi == 100

SigCurrentPrices == {100}
SigPredictedPrices(c) == { Rat(100 * c + k, 100) : k \in -MaxPctH..MaxPctH }
\* the latest row: with an RSI column (any whole RSI) or without one
SigLatestRows ==
    { Frame({"RSI", "MACD"},
            <<[date |-> 1, cols |-> [RSI |-> Num(r), MACD |-> Finite]]>>) :
        r \in 0..MaxRsi }
    \cup { Frame({"Close"}, <<[date |-> 1, cols |-> [Close |-> Num(100)]]>>) }

InitSignal ==
    /\ market = CHOOSE h \in Histories : TRUE
    /\ meta_features = <<"Close", "RSI", "MACD">>
    /\ models = {"AAPL"}
    /\ logs = [t \in Tickers |-> NoFile]
    /\ legacy_log = NoFile
    /\ store = PipelineStore
    /\ DashboardIdle
    /\ sender = TRUE
    /\ runs = 1
    /\ pc = "sig_log"
    /\ exit = "none"
    /\ steps = <<>>
    /\ ticker = "AAPL"
    /\ metadata = <<>>
    /\ df = NoFrame
    /\ df_features = NoFrame
    /\ input_data = NoVector
    /\ \E c \in SigCurrentPrices :
          /\ current_price = Num(c)
          /\ predicted_price \in SigPredictedPrices(c)
    /\ latest_data \in SigLatestRows
    /\ log_entry = NoEntry
    /\ sent = <<>>
    /\ sig_pct = None
    /\ sig_rsi = None
    /\ signal = ""

SigLog ==
    /\ pc = "sig_log"
    /\ LET entry == log_result(runs, ticker, current_price, predicted_price,
                               latest_data, TRUE)
       IN  /\ logs' = [logs EXCEPT ![ticker] = AppendLine(@, entry)]
           /\ log_entry' = entry
    /\ pc' = "sig_render"
    /\ UNCHANGED <<env, models, runs, exit, steps, ticker, metadata, df,
                   df_features, input_data, latest_data, predicted_price,
                   current_price, sent, sig_vars>>

\* render_ticker_prediction: the signal of the latest row of the log
Render(tk) ==
    /\ pc = "sig_render"
    /\ load_logs(logs[tk]) # <<>>
    /\ LET rows   == load_logs(logs[tk])
           latest == rows[Len(rows)]
       IN  /\ sig_pct' = latest.price_change_pct
           /\ sig_rsi' = latest.rsi
           /\ signal' = get_signal(latest.price_change_pct, latest.rsi)
    /\ pc' = "sig_done"
    /\ UNCHANGED <<env, models, logs, runs, exit, steps, run_vars>>

NextSignal ==
    \/ SigLog
    \/ \E tk \in Tickers : Render(tk)

SpecSignal == InitSignal /\ [][NextSignal]_vars

(***************************************************************************)
(* Properties of the classifier                                            *)
(***************************************************************************)
\* x > n/d and x < n/d for a number x (d > 0)
Above(x, n, d) == IsNum(x) /\ x.n * d > n * x.d
Below(x, n, d) == IsNum(x) /\ x.n * d < n * x.d
Is(x, n, d) == IsNum(x) /\ x.n * d = n * x.d

RuleWithRsi(pct, rsi) ==
    IF Above(pct, 2, 1) /\ Below(rsi, 70, 1) THEN StrongBuy
    ELSE IF Above(pct, 1, 2) /\ Below(rsi, 65, 1) THEN Buy
    ELSE IF Below(pct, -2, 1) /\ Above(rsi, 30, 1) THEN StrongSell
    ELSE IF Below(pct, -1, 2) /\ Above(rsi, 35, 1) THEN Sell
    ELSE Hold

RuleWithoutRsi(pct) ==
    IF Above(pct, 2, 1) THEN StrongBuy
    ELSE IF Above(pct, 1, 2) THEN Buy
    ELSE IF Below(pct, -2, 1) THEN StrongSell
    ELSE IF Below(pct, -1, 2) THEN Sell
    ELSE Hold

\* C1: with an RSI value in 0..100 the signal is the first matching rule of
\* pct > 2 and rsi < 70 -> STRONG BUY; pct > 0.5 and rsi < 65 -> BUY;
\* pct < -2 and rsi > 30 -> STRONG SELL; pct < -0.5 and rsi > 35 -> SELL;
\* otherwise HOLD
C1_FirstMatchWithRsi ==
    (pc = "sig_done" /\ IsNum(sig_rsi)) => signal = RuleWithRsi(sig_pct, sig_rsi)

\* C2: without an RSI the signal is STRONG BUY if pct > 2, else BUY if
\* pct > 0.5, else STRONG SELL if pct < -2, else SELL if pct < -0.5, else
\* HOLD; the comparisons are strict (pct = -0.5 with rsi = 36 is HOLD)
C2_StrictRuleWithoutRsi ==
    /\ (pc = "sig_done" /\ sig_rsi = None) => signal = RuleWithoutRsi(sig_pct)
    /\ (pc = "sig_done" /\ Is(sig_pct, -1, 2) /\ Is(sig_rsi, 36, 1))
          => signal = Hold

C2_Witness ==
    /\ pc = "sig_done"
    /\ sig_rsi = None
    /\ Is(sig_pct, 2, 1)
    /\ signal = Buy

\* C3 as stated: current 100 and predicted 102 are recorded with
\* price_change 2.0 and price_change_pct 2.0, and any rsi < 70 gives
\* STRONG BUY
C3_StrongBuyAtTwoPercent ==
    (/\ pc = "sig_done"
     /\ Is(current_price, 100, 1)
     /\ Is(predicted_price, 102, 1)
     /\ Below(sig_rsi, 70, 1))
    => (/\ Is(log_entry.price_change, 2, 1)
        /\ Is(log_entry.price_change_pct, 2, 1)
        /\ signal = StrongBuy)

\* C3 amended: current 100 and predicted 102 are recorded with price_change
\* 2.0 and price_change_pct 2.0; 2.0 is not above the 2 percent threshold,
\* so the signal is BUY for rsi < 65 and HOLD for 65 <= rsi < 70
C3_BuyAtTwoPercent ==
    (/\ pc = "sig_done"
     /\ Is(current_price, 100, 1)
     /\ Is(predicted_price, 102, 1)
     /\ Below(sig_rsi, 70, 1))
    => (/\ Is(log_entry.price_change, 2, 1)
        /\ Is(log_entry.price_change_pct, 2, 1)
        /\ signal = IF Below(sig_rsi, 65, 1) THEN Buy ELSE Hold)

C3_Witness ==
    /\ pc = "sig_done"
    /\ Is(current_price, 100, 1)
    /\ Is(predicted_price, 102, 1)
    /\ Is(sig_rsi, 50, 1)
    /\ Is(log_entry.price_change_pct, 2, 1)
    /\ signal = Buy

(***************************************************************************)
(* prepare_input on its own: the monitor stands after engineer_features    *)
(* with a dense feature table whose ratio column may hold infinities (a    *)
(* ratio over zero is infinite, and dropna keeps it).                      *)
(***************************************************************************)
MaxPrepRows == 2

PrepColumns == {"Close", "Daily_Return"}
PrepCells(c) ==
    IF c = "Close" THEN {Num(1), Num(2)} ELSE {Num(1), Num(2), PInf, NInf}
PrepFeatureLists ==
    { <<"Close", "Daily_Return">>, <<"Daily_Return">>, <<"Close", "Sentiment">> }

PrepRows(k) ==
    { [t \in 1..k |-> [date |-> t, cols |-> cells[t]]] :
        cells \in [1..k -> { f \in [PrepColumns -> UNION { PrepCells(c) : c \in PrepColumns }] :
                               \A c \in PrepColumns : f[c] \in PrepCells(c) }] }

PrepTables == UNION { { Frame(PrepColumns, rows) : rows \in PrepRows(k) } : k \in 1..MaxPrepRows }

InitPrepare ==
    /\ market = CHOOSE h \in Histories : TRUE
    /\ meta_features \in PrepFeatureLists
    /\ models = {"AAPL"}
    /\ logs = [t \in Tickers |-> NoFile]
    /\ legacy_log = NoFile
    /\ store = PipelineStore
    /\ DashboardIdle
    /\ sender = TRUE
    /\ runs = 1
    /\ pc = "prepare"
    /\ exit = "none"
    /\ steps = <<"load_model", "fetch", "engineer">>
    /\ ticker = "AAPL"
    /\ metadata = meta_features
    /\ df = NoFrame
    /\ df_features \in PrepTables
    /\ input_data = NoVector
    /\ latest_data = NoFrame
    /\ predicted_price = None
    /\ current_price = None
    /\ log_entry = NoEntry
    /\ sent = <<>>
    /\ sig_pct = None
    /\ sig_rsi = None
    /\ signal = ""

NextPrepare == \E scaler_ok \in BOOLEAN : Prepare(scaler_ok)

SpecPrepare == InitPrepare /\ [][NextPrepare]_vars

(***************************************************************************)
(* The log and the alert of successive runs, of monitor/monitor.py and of  *)
(* scripts/monitor.py: runs for AAPL whose download, scaler and predictor  *)
(* succeed, over histories that end at a close of 0, 3 or 100, with any    *)
(* subscriber store and with or without credentials; the migration script  *)
(* may replace the metadata between runs.                                  *)
(***************************************************************************)
LogLastCloses == {0, 3, 100}
LogHistories ==
    { [n |-> MA50Window, last |-> l, up |-> 0, down |-> 1, flat |-> 0, zv |-> 0] :
        l \in LogLastCloses }
LogFeatureLists == { <<"Close", "RSI", "MACD">>, <<"Close", "MA_5">> }
LogPredictedPrices == { Num(4), Rat(20001, 1000) }

InitLogAlert ==
    /\ market \in LogHistories
    /\ meta_features \in LogFeatureLists
    /\ models = {"AAPL", OldModel}
    /\ logs = [t \in Tickers |-> NoFile]
    /\ legacy_log = NoFile
    /\ store \in InitStores
    /\ DashboardIdle
    /\ sender \in BOOLEAN
    /\ runs = 0
    /\ RunIdle
    /\ sig_pct = None
    /\ sig_rsi = None
    /\ signal = ""

NextLogAlert ==
    \/ StartRun("AAPL")
    \/ StartOldRun
    \/ LoadModel
    \/ Fetch("ok")
    \/ Engineer
    \/ Prepare(TRUE)
    \/ \E result \in LogPredictedPrices : Predict(result)
    \/ \E write_ok \in BOOLEAN : Log(write_ok)
    \/ \E write_ok \in BOOLEAN : LogOld(write_ok)
    \/ \E fail_at \in FailPoints : Email(fail_at)
    \/ \E old_features \in LogFeatureLists : Migrate("AAPL", TRUE, TRUE, old_features)

SpecLogAlert == InitLogAlert /\ [][NextLogAlert]_vars

(***************************************************************************)
(* Properties of the log                                                   *)
(***************************************************************************)
IsPrefix(a, b) == Len(a) <= Len(b) /\ SubSeq(b, 1, Len(a)) = a

\* C4: the per-symbol log is append-only: every step of a pipeline run or of
\* the migration script leaves the old content of every log as a prefix of
\* the new content (and never removes a log), and a successful log_result
\* adds exactly one line to the log of its ticker and none to the others
C4_AppendOnly ==
    [][/\ \A t \in Tickers :
             /\ IsPrefix(logs[t].lines, logs'[t].lines)
             /\ logs[t].exists => logs'[t].exists
       /\ (pc = "log" /\ pc' = "email") =>
             /\ Len(logs'[ticker].lines) = Len(logs[ticker].lines) + 1
             /\ logs'[ticker].lines[Len(logs'[ticker].lines)] = log_entry'
             /\ \A t \in Tickers \ {ticker} : logs'[t] = logs[t]
       /\ ~(pc = "log" /\ pc' = "email") =>
             \A t \in Tickers : logs'[t].lines = logs[t].lines]_vars

\* two runs have appended to one log and the migration script has run for
\* the other ticker
C4_Witness ==
    /\ Len(logs["AAPL"].lines) = 2
    /\ logs["TSLA"].exists
    /\ "TSLA" \in models

(***************************************************************************)
(* Properties of the indicator engine                                      *)
(***************************************************************************)
Undefined(x) == x.k \in {"nan", "none"}

\* the losses and gains of the 14 bars ending at bar t, from the closes
WindowLoss(bars, t) ==
    LET L(u) == IF u >= 2 /\ bars[u].Close < bars[u - 1].Close
                THEN bars[u - 1].Close - bars[u].Close ELSE 0
    IN  L(t) + L(t-1) + L(t-2) + L(t-3) + L(t-4) + L(t-5) + L(t-6) + L(t-7)
        + L(t-8) + L(t-9) + L(t-10) + L(t-11) + L(t-12) + L(t-13)
WindowGain(bars, t) ==
    LET G(u) == IF u >= 2 /\ bars[u].Close > bars[u - 1].Close
                THEN bars[u].Close - bars[u - 1].Close ELSE 0
    IN  G(t) + G(t-1) + G(t-2) + G(t-3) + G(t-4) + G(t-5) + G(t-6) + G(t-7)
        + G(t-8) + G(t-9) + G(t-10) + G(t-11) + G(t-12) + G(t-13)

\* engineer_features has just returned a table
Engineered == pc = "prepare" /\ df.some /\ df_features.some

Dates(frame) == { frame.rows[i].date : i \in DOMAIN frame.rows }

RsiAt(bars, t) == RsiOf(GainMean(bars)[t], LossMean(bars)[t])

\* C5: every row of the table engineer_features returns is fully dense: it
\* has every raw and derived column and no undefined value in any of them
C5_Dense ==
    df_features.some =>
        \A i \in DOMAIN df_features.rows :
            /\ DOMAIN df_features.rows[i].cols = AllColumns
            /\ \A c \in AllColumns : ~Undefined(df_features.rows[i].cols[c])

\* a table that kept the row of bar 50 and dropped the row of bar 51
C5_Witness ==
    /\ Engineered
    /\ Len(df.rows) = 51
    /\ Dates(df_features) = {50}

\* C6 as stated: for any input of 50 bars or more the table is not empty and
\* its last row is the row of the last bar
C6_LastBarAlwaysKept ==
    (Engineered /\ Len(df.rows) >= MA50Window) =>
        /\ df_features.rows # <<>>
        /\ df_features.rows[Len(df_features.rows)].date = Len(df.rows)

\* the last bar is not degenerate: no close is zero, the last 5 volumes are
\* not all zero, and one of the last 14 bars changed the close
LastBarRegular(bars) ==
    LET n == Len(bars)
    IN  /\ \A t \in 1..n : bars[t].Close # 0
        /\ \E t \in (n - VolumeWindow + 1)..n : bars[t].Volume # 0
        /\ WindowLoss(bars, n) + WindowGain(bars, n) # 0

\* C6 amended: for any input of 50 bars or more whose last bar is not
\* degenerate (no close is zero, the last 5 volumes are not all zero, one of
\* the last 14 bars changed the close) the table is not empty and its last
\* row is the row of the last bar
C6_RegularLastBarKept ==
    (Engineered /\ Len(df.rows) >= MA50Window /\ LastBarRegular(df.rows)) =>
        /\ df_features.rows # <<>>
        /\ df_features.rows[Len(df_features.rows)].date = Len(df.rows)

C6_Witness ==
    /\ Engineered
    /\ Len(df.rows) = MA50Window
    /\ LastBarRegular(df.rows)
    /\ Dates(df_features) = {MA50Window}

\* C7: an empty feature table makes the run fatal: the step after
\* engineer_features ends the run with exit status 1, the predictor has not
\* been consulted and the logs are unchanged
C7_EmptyTableIsFatal ==
    [][(pc = "prepare" /\ df_features.rows = <<>>) =>
          /\ pc' = "idle"
          /\ exit' = 1
          /\ logs' = logs
          /\ "predict" \notin Range(steps')
          /\ "log" \notin Range(steps')]_vars

\* 50 bars or more were fetched and dense-row filtering left no row
C7_Witness ==
    /\ pc = "prepare"
    /\ df_features.some
    /\ df_features.rows = <<>>
    /\ Len(df.rows) >= MA50Window

C9_RsiBounded ==
    Engineered =>
        \A t \in RsiWindow..Len(df.rows) :
            WindowLoss(df.rows, t) > 0 =>
                /\ IsNum(RsiAt(df.rows, t))
                /\ FLe(Num(0), RsiAt(df.rows, t))
                /\ FLe(RsiAt(df.rows, t), Num(100))

\* a bar with gains and losses whose RSI is strictly inside the interval
C9_Witness ==
    /\ Engineered
    /\ WindowLoss(df.rows, Len(df.rows)) > 0
    /\ WindowGain(df.rows, Len(df.rows)) > WindowLoss(df.rows, Len(df.rows))
    /\ RsiAt(df.rows, Len(df.rows)) = Rat(200, 3)

(***************************************************************************)
(* Properties of the input preparer                                        *)
(***************************************************************************)
Defined(x) == x.k \in {"num", "fin"}

\* the rows before the last one that hold a defined value in column c
EarlierDefined(rows, c) == { i \in 1..(Len(rows) - 1) : Defined(rows[i].cols[c]) }

Latest(rows, c) ==
    LET prior == EarlierDefined(rows, c)
    IN  IF prior = {} THEN Num(0)
        ELSE rows[CHOOSE i \in prior : \A j \in prior : j <= i].cols[c]

\* C10: when the value of a selected feature is infinite or undefined in the
\* latest row, the prepared row takes the most recent defined value of the
\* same column from an earlier row, and 0 only when no earlier row has one
C10_FilledFromEarlierRow ==
    (pc = "predict" /\ latest_data.some /\ df_features.some) =>
        \A c \in latest_data.columns :
            LET rows == df_features.rows
            IN  ~Defined(rows[Len(rows)].cols[c]) =>
                    latest_data.rows[1].cols[c] = Latest(rows, c)

\* the value prepare_input hands over for a cell of the latest row
PreparedValue(x) == IF IsInf(x) \/ IsNaN(x) THEN Num(0) ELSE x

\* C11: when the metadata's feature list names a column the feature table
\* does not have, the prepare step ends the run with exit status 1, the
\* scaler and the predictor have not been called and the logs are
\* unchanged; otherwise a vector that is produced holds one value per
\* declared feature, the value of that feature, in the declared order
C11_MissingFeatureIsFatal ==
    [][pc = "prepare" =>
          IF ~(Range(metadata) \subseteq df_features.columns)
          THEN /\ pc' = "idle"
               /\ exit' = 1
               /\ logs' = logs
               /\ "scaler" \notin Range(steps')
               /\ "predict" \notin Range(steps')
               /\ "log" \notin Range(steps')
          ELSE pc' = "predict" =>
                 /\ latest_data'.columns = Range(metadata)
                 /\ Len(input_data'.values) = Len(metadata)
                 /\ \A i \in DOMAIN metadata :
                       input_data'.values[i] =
                           PreparedValue(df_features.rows[Len(df_features.rows)]
                                             .cols[metadata[i]])]_vars

\* a run over a non-empty table ended at the prepare step before the scaler
\* was called, its metadata naming a column the table does not have
C11_Witness ==
    /\ pc = "idle"
    /\ steps = <<"load_model", "fetch", "engineer", "prepare">>
    /\ exit = 1
    /\ "Sentiment" \in Range(meta_features)
    /\ logs = [t \in Tickers |-> NoFile]

(***************************************************************************)
(* Properties of the result logger and of the alert                        *)
(***************************************************************************)
\* a log step that appended a record
Logged == pc = "log" /\ pc' = "email"

\* the log file the running script writes
RunLog == IF OldScript THEN legacy_log ELSE logs[ticker]

LastClose == Num(df.rows[Len(df.rows)].Close)

\* a number with at most two decimals
TwoDecimals(x) == IsNum(x) /\ 100 % x.d = 0

\* C12: every record log_result appends has price_change = predicted_price -
\* current_price and price_change_pct = price_change / current_price * 100,
\* and stores current_price, predicted_price, price_change and
\* price_change_pct rounded to 2 decimals
C12_RecordsRounded ==
    [][Logged =>
          LET change == FSub(predicted_price, LastClose)
              pct    == FMul(FDiv(change, LastClose), Num(100))
          IN  /\ log_entry'.current_price = Round2(LastClose)
              /\ log_entry'.predicted_price = Round2(predicted_price)
              /\ log_entry'.price_change = Round2(change)
              /\ log_entry'.price_change_pct = Round2(pct)
              /\ LastClose # Num(0) =>
                    /\ TwoDecimals(log_entry'.current_price)
                    /\ TwoDecimals(log_entry'.predicted_price)
                    /\ TwoDecimals(log_entry'.price_change)
                    /\ TwoDecimals(log_entry'.price_change_pct)]_vars

\* C13: when the current price is 0 the log step fails: the run ends with
\* exit status 1 and no record is appended to a log
C13_ZeroPriceIsFatal ==
    [][(pc = "log" /\ LastClose = Num(0)) =>
          /\ pc' = "idle"
          /\ exit' = 1
          /\ logs' = logs
          /\ legacy_log' = legacy_log]_vars

RecordFields ==
    {"current_price", "predicted_price", "price_change", "price_change_pct",
     "rsi", "macd"}

\* C14: load_logs reads as many rows as records were written, and the row
\* of every record holds the values written for current_price,
\* predicted_price, price_change, price_change_pct, rsi and macd
C14_RoundTrip ==
    \A t \in Tickers :
        LET lines == logs[t].lines
            rows  == load_logs(logs[t])
        IN  /\ Len(rows) = Len(lines)
            /\ \A i \in DOMAIN lines :
                  \E j \in DOMAIN rows :
                      /\ rows[j].timestamp = lines[i].timestamp
                      /\ \A f \in RecordFields : rows[j][f] = lines[i][f]

\* C16: when the store is a legacy flat list, the monitor's load_subscribers
\* and the dashboard's get_subscribers resolve that whole list for every
\* ticker, and it is the list the alert of a run goes to
C16_LegacyListForEveryTicker ==
    store.kind = "list" =>
        /\ \A tk \in Tickers :
              /\ load_subscribers(store, tk) = store.list
              /\ sa_get_subscribers(store, tk) = store.list
        /\ (pc = "email" /\ ~OldScript) => Subscribers = store.list

\* a run of monitor/monitor.py has sent its alert to both emails of a flat
\* list
C16_Witness ==
    /\ pc = "idle"
    /\ steps # <<>>
    /\ steps[Len(steps)] = "smtp"
    /\ ~OldScript
    /\ store.kind = "list"
    /\ Len(store.list) = 2
    /\ sent = store.list

\* the record of the run is the last line of its log
RecordKept ==
    /\ RunLog.lines # <<>>
    /\ RunLog.lines[Len(RunLog.lines)] = log_entry

C20_EmailFailureNotFatal ==
    [][pc = "email" =>
          /\ pc' = "idle"
          /\ exit' = 0
          /\ RecordKept
          /\ logs' = logs
          /\ legacy_log' = legacy_log]_vars

\* a run whose second connection failed: one message sent of two, exit 0,
\* the record in the log
C20_Witness ==
    /\ pc = "idle"
    /\ steps # <<>>
    /\ steps[Len(steps)] = "smtp_error"
    /\ ~OldScript
    /\ exit = 0
    /\ sender
    /\ Len(load_subscribers(store, "AAPL")) = 2
    /\ Len(sent) = 1
    /\ Len(logs["AAPL"].lines) = 1

(***************************************************************************)
(* Dashboard sessions.  An operation of a dashboard reads the whole        *)
(* subscriber file, changes what it read and writes the whole file back;   *)
(* nothing holds the file between the read and the write.  Each of the two *)
(* sessions performs one operation.                                        *)
(***************************************************************************)
InitSubscribers ==
    /\ market \in LogHistories
    /\ meta_features = <<"Close">>
    /\ models = {"AAPL"}
    /\ logs = [t \in Tickers |-> NoFile]
    /\ legacy_log = NoFile
    /\ store \in InitStores
    /\ DashboardIdle
    /\ sender = TRUE
    /\ runs = 0
    /\ RunIdle
    /\ sig_pct = None
    /\ sig_rsi = None
    /\ signal = ""

\* the operation starts: json.load of the file
Begin(p, op) ==
    /\ dash[p].pc = "idle"
    /\ dash' = [dash EXCEPT ![p] = [pc |-> "loaded", op |-> op,
                                    raw |-> Load(op, store),
                                    ok |-> FALSE, msg |-> ""]]
    /\ UNCHANGED <<market, meta_features, store, store0, legacy_log, sender,
                   models, logs, runs, pc, exit, steps, run_vars, sig_vars>>

\* a session that reads the file again at the moment it writes
Snapshot_reread(p) == Load(dash[p].op, store)

\* what the session works on: the content it loaded when it began
Snapshot(p) == dash[p].raw

\* the operation ends: it changes what it loaded, saves it unless it
\* returned early, and reports
Finish(p) ==
    /\ dash[p].pc = "loaded"
    /\ LET r == Apply(dash[p].op, Snapshot(p))
       IN  /\ store' = IF r.write THEN r.data ELSE store
           /\ dash' = [dash EXCEPT ![p].pc = "done", ![p].ok = r.ok,
                                   ![p].msg = r.msg]
    /\ UNCHANGED <<market, meta_features, store0, legacy_log, sender,
                   models, logs, runs, pc, exit, steps, run_vars, sig_vars>>

NextSubscribers ==
    \/ \E p \in Procs : \E op \in Ops : Begin(p, op)
    \/ \E p \in Procs : Finish(p)

SpecSubscribers == InitSubscribers /\ [][NextSubscribers]_vars

(***************************************************************************)
(* Properties of the subscriber store                                      *)
(***************************************************************************)
\* the operations that subscribe an email
Adds(op) ==
    \/ op.name = "add"
    \/ op.name = "subscribe" /\ op.sel # {}

\* the email of the operation is in the list, or in each of the lists, the
\* operation looks at in the content it loaded
Listed(op, raw) ==
    CASE op.app = "streamlit app" ->
            Has(Get(sa_migrate(raw).dict, op.tk), op.email)
      [] op.app = "streamlit_app" ->
            raw.kind = "list" /\ Has(raw.list, op.email)
      [] OTHER ->
            \A t \in op.sel : Has(Get(raw.dict, t), op.email)

\* session p ends its operation in this step
Finishes(p) == dash[p].pc = "loaded" /\ dash'[p].pc = "done"

\* running the operation a second time leaves the file as the first run
\* left it
AddTwiceIsAddOnce(subscribers_file) ==
    \A op \in Ops :
        Adds(op) => After(op, After(op, subscribers_file))
                    = After(op, subscribers_file)

\* C15 as stated: an add of an email that is already in the symbol's list
\* reports "already subscribed", returns failure and leaves the file as it
\* is, in each of the three dashboards
C15_AddReportsAlreadySubscribed ==
    [][\A p \in Procs :
         Finishes(p) /\ Adds(dash[p].op) /\ Listed(dash[p].op, dash[p].raw)
         => /\ dash'[p].ok = FALSE
            /\ dash'[p].msg = AlreadySubscribed
            /\ store' = store]_vars

\* C15: add_subscriber of "streamlit app" and of StreamlitApp, called with
\* an email that is already in the list, reports "already subscribed",
\* returns failure and does not write the file; "Subscribe / Update" of
\* Streamlit_app leaves the lists of the selected symbols as they are but
\* saves the file and reports success; with each of the three, add;add
\* leaves the same store as a single add
C15_AddIsIdempotent ==
    [][/\ AddTwiceIsAddOnce(store)
       /\ AddTwiceIsAddOnce(store')
       /\ \A p \in Procs :
            Finishes(p) /\ Adds(dash[p].op) /\ Listed(dash[p].op, dash[p].raw)
            => IF dash[p].op.app = "Streamlit_app"
               THEN /\ dash'[p].ok = TRUE
                    /\ dash'[p].msg = Updated
                    /\ \A t \in dash[p].op.sel :
                          Get(store'.dict, t) = Get(dash[p].raw.dict, t)
               ELSE /\ dash'[p].ok = FALSE
                    /\ dash'[p].msg = AlreadySubscribed
                    /\ store' = store]_vars

\* one session added an email to a symbol, then the other session added
\* the same email to the same symbol and was told it is already there
C15_Witness ==
    /\ dash["p1"].pc = "done"
    /\ dash["p2"].pc = "done"
    /\ dash["p1"].op = dash["p2"].op
    /\ dash["p1"].op.app = "streamlit app"
    /\ dash["p1"].op.name = "add"
    /\ dash["p1"].ok
    /\ dash["p2"].msg = AlreadySubscribed
    /\ Len(load_subscribers(store, dash["p1"].op.tk)) = 1

\* C17: from a legacy flat list, every legacy email that no dashboard
\* operation was about is still a subscriber of every symbol
C17_LegacyEmailsKept ==
    store0.kind = "list" =>
        \A i \in DOMAIN store0.list :
            (\A p \in Procs : dash[p].op.email # store0.list[i])
            => \A tk \in Tickers :
                  /\ Has(load_subscribers(store, tk), store0.list[i])
                  /\ Has(sa_get_subscribers(store, tk), store0.list[i])

\* the email of the operation is subscribed in the file
InStore(op, subscribers_file) == Listed(op, Load(op, subscribers_file))

\* two sessions of the same dashboard added different emails, each having
\* loaded the same content of the file, as happens when neither saw the
\* write of the other
Raced(p, q) ==
    /\ p # q
    /\ dash[p].pc = "done"
    /\ dash[q].pc = "done"
    /\ dash[p].op.app = dash[q].op.app
    /\ Adds(dash[p].op)
    /\ Adds(dash[q].op)
    /\ dash[p].op.email # dash[q].op.email
    /\ dash[p].raw = dash[q].raw
    /\ ~Listed(dash[p].op, dash[p].raw)
    /\ ~Listed(dash[q].op, dash[q].raw)
    /\ dash[p].raw.kind # "dict" \/ dash[p].op.app # "streamlit_app"

\* C18: nothing orders the read and the write of one session against those
\* of another: when two sessions add different emails from the same content
\* of the file, both report success and the file ends as the last writer
\* computed it, without the email of the other
C18_LostUpdate ==
    \A p \in Procs, q \in Procs :
        Raced(p, q)
        => /\ dash[p].ok
           /\ dash[q].ok
           /\ \E w \in {p, q} : \E l \in {p, q} \ {w} :
                /\ store = Apply(dash[w].op, dash[w].raw).data
                /\ InStore(dash[w].op, store)
                /\ ~InStore(dash[l].op, store)

\* both sessions added an email to AAPL and were told they are subscribed;
\* the file holds one of the two emails
C18_Witness ==
    /\ Raced("p1", "p2")
    /\ dash["p1"].op = Op("streamlit app", "add", "AAPL", {}, "a@x.com")
    /\ dash["p2"].op = Op("streamlit app", "add", "AAPL", {}, "b@x.com")
    /\ dash["p1"].ok
    /\ dash["p2"].ok
    /\ load_subscribers(store, "AAPL") = <<"a@x.com">>
    /\ store0 = NoStore

(***************************************************************************)
(* Properties of the alert and of the order of the steps                   *)
(***************************************************************************)
\* the alert step of a run with credentials and subscribers, in which the
\* environment did not fail
AlertSent ==
    /\ pc = "email"
    /\ pc' = "idle"
    /\ sender
    /\ Subscribers # <<>>
    /\ "smtp_error" \notin Range(steps')

\* C21: with credentials and a non-empty subscriber list, whether or not
\* the record has rsi and macd values, the alert sends one message to each
\* subscriber of the list, in one connection each
C21_OneMessagePerSubscriber ==
    [][AlertSent =>
          /\ sent' = Subscribers
          /\ Len(SelectSeq(steps', LAMBDA x : x = "smtp")) = Len(Subscribers)]_vars

\* the step the run is at has produced what the next step needs
StepSucceeded ==
    CASE pc = "load_model" -> ModelFiles \in models /\ pc' = "fetch"
      [] pc = "fetch" -> df'.some /\ df'.rows # <<>> /\ pc' = "engineer"
      [] pc = "engineer" -> df_features'.some /\ pc' = "prepare"
      [] pc = "prepare" -> input_data'.some /\ pc' = "predict"
      [] pc = "predict" -> predicted_price' # None /\ pc' = "log"
      [] pc = "log" -> log_entry' # NoEntry /\ pc' = "email"
      [] OTHER -> FALSE

\* the step the run is at has failed and ended the run with exit status 1:
\* it is the last step of the run, nothing was sent, the logs are as they
\* were, and unless it is the log step itself no log step has run
StepWasFatal ==
    /\ pc' = "idle"
    /\ exit' = 1
    /\ steps'[Len(steps')] \in {pc, "scaler"}
    /\ "email" \notin Range(steps')
    /\ "smtp" \notin Range(steps')
    /\ sent' = <<>>
    /\ logs' = logs
    /\ legacy_log' = legacy_log
    /\ pc # "log" => "log" \notin Range(steps')

\* C22: every step of run_pipeline before the alert either succeeds or ends
\* the run at once with exit status 1; after a fatal exit no step of that
\* run executes, the logs change only in a log step (or by the migration
\* script between runs), so a failure before log_result leaves the log
\* unchanged and no email is sent
C22_FatalStopsRun ==
    [][/\ pc \notin {"idle", "email"} => StepSucceeded \/ StepWasFatal
       /\ (pc = "idle" /\ steps # <<>> /\ pc' = "idle") => steps' = steps \/ runs' # runs
       /\ (logs' # logs \/ legacy_log' # legacy_log) => pc \in {"log", "idle"}
       /\ sent' # sent => pc \in {"email", "idle"}]_vars

\* a run whose prediction failed: exit status 1 after the predict step, no
\* log file, nothing sent
C22_Witness ==
    /\ pc = "idle"
    /\ steps = <<"load_model", "fetch", "engineer", "prepare", "scaler", "predict">>
    /\ exit = 1
    /\ logs = [t \in Tickers |-> NoFile]
    /\ sent = <<>>

(***************************************************************************)
(* Runs of both scripts with every outcome of every step.  run_pipeline is *)
(* straight-line code: once a run has started, the step it is at is        *)
(* executed.                                                               *)
(***************************************************************************)
InitRuns ==
    /\ market \in LogHistories
    /\ meta_features \in LogFeatureLists
    /\ models \in {{"AAPL", OldModel}, {"AAPL"}}
    /\ logs = [t \in Tickers |-> NoFile]
    /\ legacy_log = NoFile
    /\ store = PipelineStore
    /\ DashboardIdle
    /\ sender = TRUE
    /\ runs = 0
    /\ RunIdle
    /\ sig_pct = None
    /\ sig_rsi = None
    /\ signal = ""

\* the step the run is at
Step ==
    \/ LoadModel
    \/ \E outcome \in FetchOutcomes : Fetch(outcome)
    \/ Engineer
    \/ \E scaler_ok \in BOOLEAN : Prepare(scaler_ok)
    \/ \E result \in LogPredictedPrices \cup {None} : Predict(result)
    \/ \E write_ok \in BOOLEAN : Log(write_ok)
    \/ \E write_ok \in BOOLEAN : LogOld(write_ok)
    \/ \E fail_at \in FailPoints : Email(fail_at)

NextRuns ==
    \/ StartRun("AAPL")
    \/ StartOldRun
    \/ Step

\* the steps of run_pipeline, in its order
PipelineSteps ==
    <<"load_model", "fetch", "engineer", "prepare", "predict", "log", "email">>

\* the run leaves the step it is at: the interpreter executes the call the
\* run is at and the test of its result.  Every step of NextRuns that
\* changes pc during a run is a Step, and a Step is possible at every
\* position of a run.
Advance == pc # "idle" /\ pc' \in (Range(PipelineSteps) \cup {"idle"}) \ {pc}

SpecRuns == InitRuns /\ [][NextRuns]_vars /\ WF_pc(Advance)

\* the steps of run_pipeline the run has attempted
Attempted(history) == SelectSeq(history, LAMBDA x : x \in Range(PipelineSteps))

\* C23: the steps attempted by a run are the first steps of run_pipeline,
\* each once and in its order; a record is appended only by the log step,
\* right after a prediction that gave a price and before anything is sent;
\* a run ends with exit status 0 after the alert step or with exit status 1
\* before it, and every run that has started ends
C23_OrderedOnceAndTerminates ==
    /\ [][/\ IsPrefix(Attempted(steps'), PipelineSteps)
          /\ (logs' # logs \/ legacy_log' # legacy_log) =>
                /\ pc = "log"
                /\ Attempted(steps') = SubSeq(PipelineSteps, 1, 6)
                /\ predicted_price # None
                /\ sent' = <<>>
          /\ (pc # "idle" /\ pc' = "idle") =>
                \/ exit' = 0 /\ Attempted(steps') = PipelineSteps
                \/ exit' = 1 /\ "email" \notin Range(steps')]_vars
    /\ (pc # "idle") ~> (pc = "idle")

\* a run of scripts/monitor.py has completed: seven steps, a record in its
\* log, two messages sent
C23_Witness ==
    /\ pc = "idle"
    /\ steps # <<>>
    /\ OldScript
    /\ Attempted(steps) = PipelineSteps
    /\ exit = 0
    /\ Len(legacy_log.lines) = 1
    /\ Len(sent) = 2

(***************************************************************************)
(* Properties of the stored emails                                         *)
(***************************************************************************)
\* the lists of the store
ListsOf(subscribers_file) ==
    IF subscribers_file.kind = "dict"
    THEN { subscribers_file.dict[t] : t \in DOMAIN subscribers_file.dict }
    ELSE { subscribers_file.list }

\* C24: from an empty store, every email the dashboards store is in
\* lowercased form, and no list holds two addresses that differ only in
\* letter case
C24_StoredLowercased ==
    store0 = NoStore =>
        \A l \in ListsOf(store) :
            /\ \A i \in DOMAIN l : Lower(l[i]) = l[i]
            /\ \A i \in DOMAIN l, j \in DOMAIN l :
                  Lower(l[i]) = Lower(l[j]) => i = j

(***************************************************************************)
(* Properties of the exponential averages and of the feature table         *)
(***************************************************************************)
\* the close prices of constant series
ConstantCloses == {1, 3, 100}

\* the series of n closes of c
ConstantSeries(n, c) == [t \in 1..n |-> Num(c)]

\* EMA_12 is c and MACD and MACD_Signal are 0 on every bar of the series
\* whose closes are all c
FlatAverages(Close, c) ==
    LET EMA12  == Ewm(Close, 12)
        EMA26  == Ewm(Close, 26)
        MACD   == [u \in DOMAIN Close |-> FSub(EMA12[u], EMA26[u])]
        Signal == Ewm(MACD, 9)
    IN  \A t \in DOMAIN Close :
            /\ EMA12[t] = Num(c)
            /\ MACD[t] = Num(0)
            /\ Signal[t] = Num(0)

\* every close of the fetched bars is the close of the first bar
ConstantFetched ==
    /\ df.some
    /\ "Close" \in df.columns
    /\ df.rows # <<>>
    /\ \A t \in DOMAIN df.rows : df.rows[t].Close = df.rows[1].Close

\* C25: on a series whose closes are all C, EMA_12 is C on every bar and
\* MACD and MACD_Signal are 0 on every bar: for the fetched bars, as
\* engineer_features computes the three columns of its last row, and for
\* every constant series of up to MaxBars bars
C25_ConstantCloseEma ==
    (pc = "engineer" /\ ConstantFetched) =>
        LET n == Len(df.rows)
            c == df.rows[1].Close
            r == Row(df.rows, n).cols
        IN  /\ FlatAverages(Column(df.rows, "Close"), c)
            /\ r.EMA_12 = Num(c)
            /\ r.MACD = Num(0)
            /\ r.MACD_Signal = Num(0)
            /\ \A k \in ConstantCloses :
                  FlatAverages(ConstantSeries(n, k), k)

\* the engineer step has run on 50 bars of one close
C25_Witness ==
    /\ pc = "prepare"
    /\ ConstantFetched
    /\ Len(df.rows) = MA50Window
    /\ df.rows[1].Close = 100

\* the bars are not degenerate: no close is 0, no 5 successive volumes are
\* all 0, and the close changes within every 14 successive bars
NonDegenerate(bars) ==
    /\ \A t \in DOMAIN bars : bars[t].Close # 0
    /\ \A t \in VolumeWindow..Len(bars) :
          \E u \in (t - VolumeWindow + 1)..t : bars[u].Volume # 0
    /\ \A t \in (RsiWindow + 1)..Len(bars) :
          \E u \in (t - RsiWindow + 1)..t : bars[u].Close # bars[u - 1].Close

\* C26: engineer_features on n bars that are not degenerate returns the
\* rows of the bars 50..n, max(0, n - 49) of them; on fewer than 50 bars
\* it returns an empty table, whatever the bars, and the run then ends at
\* the prepare step with exit status 1 and no record logged
C26_RowCount ==
    [][/\ (pc = "engineer" /\ pc' = "prepare") =>
             LET n    == Len(df.rows)
                 rows == df_features'.rows
             IN  /\ NonDegenerate(df.rows) =>
                       /\ Len(rows) = (IF n >= MA50Window THEN n - MA50Window + 1 ELSE 0)
                       /\ \A i \in DOMAIN rows : rows[i].date = MA50Window - 1 + i
                 /\ n < MA50Window => rows = <<>>
       /\ (pc = "prepare" /\ Len(df.rows) < MA50Window) =>
             /\ pc' = "idle"
             /\ exit' = 1
             /\ logs' = logs]_vars

\* the engineer step has returned the rows of the bars 50 and 51 of 51 bars
\* that are not degenerate
C26_Witness ==
    /\ pc = "prepare"
    /\ NonDegenerate(df.rows)
    /\ Len(df.rows) = MA50Window + 1
    /\ Len(df_features.rows) = 2
    /\ df_features.rows[1].date = MA50Window

\* C27: in every run that logs a record, the feature row the prediction
\* and the logged rsi and macd come from is the row of the last fetched
\* bar, the bar whose Close is logged as current_price
C27_SameBar ==
    [][Logged =>
          /\ latest_data.rows[1].date = Len(df.rows)
          /\ df_features.rows[Len(df_features.rows)].date = Len(df.rows)
          /\ log_entry'.current_price
               = Round2(Num(df.rows[latest_data.rows[1].date].Close))]_vars

(***************************************************************************)
(* The classifier with and without an RSI                                  *)
(***************************************************************************)
\* RSI values besides the whole numbers of the rendered records: fractions
\* next to the thresholds, an RSI out of range, an undefined RSI
SigOtherRsis ==
    { Rat(299, 10), Rat(301, 10), Rat(349, 10), Rat(351, 10), Rat(649, 10),
      Rat(651, 10), Rat(699, 10), Rat(701, 10), Num(-1), Num(101), NaN }

\* C28: the signal with an RSI is the signal without an RSI or HOLD, for
\* the RSI of the rendered record and for every other RSI; so BUY and
\* STRONG BUY are given only for pct > 0.5, SELL and STRONG SELL only for
\* pct < -0.5
C28_RsiOnlyWeakens ==
    pc = "sig_done" =>
        /\ signal \in {RuleWithoutRsi(sig_pct), Hold}
        /\ \A rsi \in SigOtherRsis \cup {sig_rsi} :
              /\ get_signal(sig_pct, rsi) \in {RuleWithoutRsi(sig_pct), Hold}
              /\ get_signal(sig_pct, rsi) \in {get_signal(sig_pct, None), Hold}
        /\ signal \in {Buy, StrongBuy} => Above(sig_pct, 1, 2)
        /\ signal \in {Sell, StrongSell} => Below(sig_pct, -1, 2)

\* a record with pct above 2 and an RSI of 70 is rendered as HOLD, where
\* the signal without an RSI is STRONG BUY
C28_Witness ==
    /\ pc = "sig_done"
    /\ Above(sig_pct, 2, 1)
    /\ Is(sig_rsi, 70, 1)
    /\ signal = Hold
    /\ get_signal(sig_pct, None) = StrongBuy

(***************************************************************************)
(* Properties of the lists after dashboard operations                      *)
(***************************************************************************)
\* no list of the store holds the same email twice
DuplicateFree(subscribers_file) ==
    \A l \in ListsOf(subscribers_file) :
        \A i \in DOMAIN l, j \in DOMAIN l : l[i] = l[j] => i = j

\* session q began its operation on the file as session p left it
RanAfter(q, p) ==
    /\ dash[p].pc = "done"
    /\ dash[q].pc = "done"
    /\ dash[q].raw = Load(dash[q].op, After(dash[p].op, store0))

\* C29: from a store whose lists are duplicate-free, after any operations
\* of the dashboards no list of the store holds the same email twice, and
\* one more operation run on that store leaves it so
C29_NoDuplicates ==
    /\ DuplicateFree(store0)
    /\ DuplicateFree(store)
    /\ \A op \in Ops : DuplicateFree(After(op, store))

\* add_subscriber put an email in the list of AAPL, then "Subscribe /
\* Update" ran for the same email with AAPL selected: the list holds the
\* email once
C29_Witness ==
    /\ RanAfter("p2", "p1")
    /\ dash["p1"].op.app = "streamlit app"
    /\ dash["p1"].op.name = "add"
    /\ dash["p1"].op.tk = "AAPL"
    /\ dash["p1"].ok
    /\ dash["p2"].op.name = "subscribe"
    /\ "AAPL" \in dash["p2"].op.sel
    /\ dash["p2"].op.email = dash["p1"].op.email
    /\ store.kind = "dict"
    /\ Has(Get(store.dict, "AAPL"), dash["p1"].op.email)

(***************************************************************************)
(* Properties of remove_subscriber as the monitor sees it                  *)
(***************************************************************************)
\* session p ends a remove_subscriber(ticker, email) of "streamlit app" and
\* the file is as the session loaded it
RemoveReturns(p) ==
    /\ Finishes(p)
    /\ dash[p].op.app = "streamlit app"
    /\ dash[p].op.name = "remove"
    /\ dash[p].raw = Load(dash[p].op, store)

\* C30: when remove_subscriber(ticker, email) returns, whatever it reports
\* and whatever the shape of the store, the list the monitor resolves for
\* the ticker does not hold the email and the lists it resolves for the
\* other tickers are as they were
C30_RemoveIsEffective ==
    [][\A p \in Procs :
         RemoveReturns(p)
         => /\ ~Has(load_subscribers(store', dash[p].op.tk), dash[p].op.email)
            /\ \A t \in Tickers \ {dash[p].op.tk} :
                  load_subscribers(store', t) = load_subscribers(store, t)]_vars

\* the same for the stores that are missing or hold a dict
C30_RemoveIsEffectiveOnDict ==
    [][\A p \in Procs :
         RemoveReturns(p) /\ store.kind # "list"
         => /\ ~Has(load_subscribers(store', dash[p].op.tk), dash[p].op.email)
            /\ \A t \in Tickers \ {dash[p].op.tk} :
                  load_subscribers(store', t) = load_subscribers(store, t)]_vars

====
